---------------------------- MODULE Spec2Model ----------------------------
(***************************************************************************)
(* Rule matching and batched execution engine of the extension manager:    *)
(* the rule index (RuleIndexer), the rule processor (processRule, process, *)
(* handle, handleSimpleMode, handleAdvanceMode), the always-on enforcement *)
(* (AlwaysOnGroupHandler) and the AI action plan execution, all feeding a  *)
(* task accumulator (ExecuteTaskHandler).                                  *)
(*                                                                         *)
(* Spec is the engine of the rounds.  The other specifications look at one *)
(* part each, over the same variables: SpecMutex at MutexGroupHandler,     *)
(* SpecAlwaysOn at the enforcement next to the rule rounds, SpecFaults at  *)
(* rounds with throwing rules and rejected calls, SpecRounds at            *)
(* overlapping runs of processRule, SpecDebounce at the debounce of        *)
(* RuleHandler, SpecMatch at the match evaluator, SpecRace at the listener *)
(* of MutexGroupHandler beside a round, SpecEnables at overlapping runs of *)
(* that listener, SpecHost at failing calls to the browser and the         *)
(* storage, SpecExtCache at the cache of ExtensionService, SpecSyncCache   *)
(* at SyncStorageCache, SpecIndex at rebuilds of the rule index,           *)
(* SpecDomain at DomainRuleOptions, SpecCustom at the custom-mode gates,   *)
(* SpecTargets at rules whose target resolves to nothing, SpecEdits at     *)
(* rounds beside edits of the rule set, SpecSwitch at the keyboard scene   *)
(* switch, SpecChain at the chain of rounds and mutex runs.                *)
(*                                                                         *)
(* Strings that the code takes apart (URLs, URL patterns) are sequences of *)
(* tokens: every label is one token, every delimiter character ("*", "/",  *)
(* ".", ":") is one token.  The regular expressions of the indexer act on  *)
(* these sequences exactly as they act on the characters.                  *)
(***************************************************************************)
EXTENDS Integers, Sequences, FiniteSets, TLC

VARIABLES
    enabled,    \* browser: the set of extension ids that are enabled
    rules,      \* configuration store: the rule list handed to a round
    groups,     \* configuration store: the group definitions
    tab,        \* the active tab's URL (NoUrl when there is none)
    tabs,       \* the URLs of all open tabs
    scene,      \* the active scene id
    now,        \* wall-clock time, in ticks
    indexer,    \* RuleIndexer: domainIndex, sceneIndex, osIndex, allRules
    rd,         \* the latest round: position, snapshot and accumulator
    mx,         \* MutexGroupHandler: the runs of handleExtensionEnabled
    ao,         \* the extensions an always-on enforcement pass has enabled
    faults,     \* the rules whose processing throws, the extensions whose
                \* state-change call the browser rejects
    rounds,     \* overlapping runs of processRule: position and snapshot
    handlers,   \* the ExecuteTaskHandler instances of these runs
    db,         \* RuleHandler: the debounce timer and what it has seen
    mt,         \* a call of the match evaluator: its arguments and result
    extSvc,     \* ExtensionService: the cached list, its calls, the clock
    syncCache,  \* SyncStorageCache: the cached options, its calls, the clock
    domainStore, \* the rule store behind DomainRuleOptions
    overlaps    \* the pairs of listener runs of which the second began
                \* while the first was in progress

\* the state of the machinery around the rounds
aux == <<mx, ao, faults, rounds, handlers, db, mt, extSvc, syncCache,
        domainStore, overlaps>>

\* the caches and the store of the domain rules
stores == <<extSvc, syncCache, domainStore>>

\* aux without mx and overlaps
notEnables == <<ao, faults, rounds, handlers, db, mt, stores>>

\* aux without mx, without ao, without rounds and handlers, without db,
\* without mt, without extSvc, without syncCache, without domainStore
notMx == <<ao, faults, rounds, handlers, db, mt, stores, overlaps>>

notAo == <<mx, faults, rounds, handlers, db, mt, stores, overlaps>>

notRounds == <<mx, ao, faults, db, mt, stores, overlaps>>

notDb == <<mx, ao, faults, rounds, handlers, mt, stores, overlaps>>

notMt == <<mx, ao, faults, rounds, handlers, db, stores, overlaps>>

notExtSvc == <<mx, ao, faults, rounds, handlers, db, mt, syncCache,
              domainStore, overlaps>>

notSyncCache == <<mx, ao, faults, rounds, handlers, db, mt, extSvc,
                 domainStore, overlaps>>

notDomainStore == <<mx, ao, faults, rounds, handlers, db, mt, extSvc,
                   syncCache, overlaps>>

vars ==
    <<enabled, rules, groups, tab, tabs, scene, now, indexer, rd, mx, ao,
      faults, rounds, handlers, db, mt, extSvc, syncCache, domainStore,
      overlaps>>

-----------------------------------------------------------------------------
(* Bounds and program constants *)

\* the longest list of acting rules (the padding rules come on top)
MaxRules == 2

\* processRule narrows through the index above this many rules
IndexThreshold == 10

-----------------------------------------------------------------------------
(* Value domains *)

SelfId == "self"

Exts == {"self", "e1", "e2"}

\* the extensions chrome.management knows
Installed == {"self", "e1", "e2", "e3"}

HostOs == "mac"

Scenes == {"s1", "s2"}

NoUrl == <<>>

UrlExample == <<"https", ":", "/", "/", "example", ".", "com", "/", "page">>

UrlOther == <<"https", ":", "/", "/", "other", ".", "org", "/">>

PatExampleCom == <<"*", "example", ".", "com", "*">>

PatExample == <<"*", "example", "*">>

PatOther == <<"*", "other", ".", "org", "*">>

PatFiller == <<"filler", ".", "net">>

-----------------------------------------------------------------------------
(* Sequence helpers *)

SeqToSet(s) == {s[i] : i \in DOMAIN s}

RECURSIVE DropWhileStar(_)
DropWhileStar(s) ==
    IF s # <<>> /\ Head(s) = "*" THEN DropWhileStar(Tail(s)) ELSE s

RECURSIVE DropTrailingStar(_)
DropTrailingStar(s) ==
    IF s # <<>> /\ s[Len(s)] = "*"
    THEN DropTrailingStar(SubSeq(s, 1, Len(s) - 1))
    ELSE s

\* the tokens before the first "/"
RECURSIVE BeforeSlash(_)
BeforeSlash(s) ==
    IF s = <<>> \/ Head(s) = "/" THEN <<>>
    ELSE <<Head(s)>> \o BeforeSlash(Tail(s))

\* String.prototype.split("."): the parts between the dots ("" gives one
\* empty part)
RECURSIVE SplitDots(_, _)
SplitDots(s, cur) ==
    IF s = <<>> THEN <<cur>>
    ELSE IF Head(s) = "." THEN <<cur>> \o SplitDots(Tail(s), <<>>)
    ELSE SplitDots(Tail(s), Append(cur, Head(s)))

\* parts.slice(-2).join(".")
LastTwoJoined(parts) ==
    parts[Len(parts) - 1] \o <<".">> \o parts[Len(parts)]

-----------------------------------------------------------------------------
(* Rule configuration: triggers, actions, rules *)

UrlT(patterns) ==
    [trigger |-> "urlTrigger", matchUrl |-> patterns, sceneIds |-> <<>>,
     os |-> <<>>, windows |-> <<>>]

SceneT(ids) ==
    [trigger |-> "sceneTrigger", matchUrl |-> <<>>, sceneIds |-> ids,
     os |-> <<>>, windows |-> <<>>]

OsT(kinds) ==
    [trigger |-> "osTrigger", matchUrl |-> <<>>, sceneIds |-> <<>>,
     os |-> kinds, windows |-> <<>>]

PeriodT(ws) ==
    [trigger |-> "periodTrigger", matchUrl |-> <<>>, sceneIds |-> <<>>,
     os |-> <<>>, windows |-> ws]

NoCustom ==
    [timeWhenEnable |-> "none", urlMatchWhenEnable |-> "none",
     timeWhenDisable |-> "none", urlMatchWhenDisable |-> "none"]

Simple(type, rEnable, rDisable) ==
    [actionType |-> type, reloadAfterEnable |-> rEnable,
     reloadAfterDisable |-> rDisable, hasCustom |-> FALSE, custom |-> NoCustom]

Custom(tEn, uEn, tDis, uDis, rEnable, rDisable) ==
    [actionType |-> "custom", reloadAfterEnable |-> rEnable,
     reloadAfterDisable |-> rDisable, hasCustom |-> TRUE,
     custom |-> [timeWhenEnable |-> tEn, urlMatchWhenEnable |-> uEn,
                 timeWhenDisable |-> tDis, urlMatchWhenDisable |-> uDis]]

\* priority is <<>> when the rule has none, <<n>> otherwise
Rule(id, en, prio, rel, trigs, tgroups, texts, act) ==
    [id |-> id, enable |-> en, priority |-> prio,
     match |-> [relationship |-> rel, triggers |-> trigs],
     target |-> [groups |-> tgroups, extensions |-> texts],
     action |-> act]

\* a.priority ?? 0
PriorityOf(r) == IF r.priority = <<>> THEN 0 ELSE r.priority[1]

-----------------------------------------------------------------------------
(* Inputs: the groups, the rules of the configuration store, the contexts *)

GroupsCfg ==
    << [id |-> "g1", extensions |-> {"self", "e1"}, alwaysOn |-> TRUE,
        isMutex |-> FALSE],
       [id |-> "g2", extensions |-> {"e1", "e2"}, alwaysOn |-> FALSE,
        isMutex |-> TRUE] >>

OpenUrl ==
    Rule("openUrl", TRUE, <<>>, "and", <<UrlT(<<PatExampleCom>>)>>,
         <<>>, <<"e1">>, Simple("openWhenMatched", TRUE, FALSE))

CloseUrl ==
    Rule("closeUrl", TRUE, <<>>, "and", <<UrlT(<<PatExample>>)>>,
         <<>>, <<"e1">>, Simple("closeWhenMatched", FALSE, FALSE))

OpenOnly5 ==
    Rule("openOnly5", TRUE, <<5>>, "and", <<UrlT(<<PatOther>>)>>,
         <<>>, <<"e1">>, Simple("openOnlyWhenMatched", FALSE, TRUE))

SceneOpen5 ==
    Rule("sceneOpen5", TRUE, <<5>>, "and", <<SceneT(<<"s1">>)>>,
         <<"g2">>, <<>>, Simple("openWhenMatched", FALSE, FALSE))

CloseOnly10 ==
    Rule("closeOnly10", TRUE, <<10>>, "and", <<SceneT(<<"s2">>)>>,
         <<"g1">>, <<>>, Simple("closeOnlyWhenMatched", FALSE, FALSE))

Custom5 ==
    Rule("custom5", TRUE, <<5>>, "and", <<UrlT(<<PatExampleCom>>)>>,
         <<>>, <<"e1">>,
         Custom("match", "anyMatch", "notMatch", "allNotMatch", TRUE, TRUE))

PeriodClose ==
    Rule("periodClose", TRUE, <<>>, "and", <<PeriodT(<< <<0, 0>> >>)>>,
         <<>>, <<"e1", "e2">>, Simple("closeWhenMatched", FALSE, FALSE))

SelfOnly ==
    Rule("selfOnly", TRUE, <<>>, "and", <<>>,
         <<>>, <<"self">>, Simple("closeWhenMatched", FALSE, FALSE))

\* a rule object without id
NoId ==
    Rule("", TRUE, <<>>, "and", <<SceneT(<<"s2">>), OsT(<<HostOs>>)>>,
         <<>>, <<"e2">>, Simple("openWhenMatched", FALSE, FALSE))

Templates ==
    {OpenUrl, CloseUrl, OpenOnly5, SceneOpen5, CloseOnly10, Custom5,
     PeriodClose, SelfOnly}

FillerIds == <<"f1", "f2", "f3", "f4", "f5", "f6", "f7", "f8", "f9", "f10">>

\* rules that never act: an OS rule without action, a disabled rule, a URL
\* rule of a domain no tab is on, and rules of a scene that is never active
Filler ==
    [i \in 1..IndexThreshold |->
        IF i = 1
        THEN Rule(FillerIds[i], TRUE, <<>>, "and", <<OsT(<<HostOs>>)>>,
                  <<>>, <<"e2">>, Simple("none", FALSE, FALSE))
        ELSE IF i = 2
        THEN Rule(FillerIds[i], FALSE, <<>>, "and", <<SceneT(<<"s1">>)>>,
                  <<>>, <<"e2">>, Simple("openWhenMatched", FALSE, FALSE))
        ELSE IF i = 3
        THEN Rule(FillerIds[i], TRUE, <<>>, "and", <<UrlT(<<PatFiller>>)>>,
                  <<>>, <<"e2">>, Simple("openWhenMatched", FALSE, FALSE))
        ELSE Rule(FillerIds[i], TRUE, <<>>, "and", <<SceneT(<<"s3">>)>>,
                  <<>>, <<"e2">>, Simple("openWhenMatched", FALSE, FALSE))]

\* the lists of at most MaxRules distinct templates
CoreLists ==
    UNION {{s \in [1..n -> Templates] :
               \A i, j \in 1..n : i # j => s[i] # s[j]} : n \in 0..MaxRules}

RuleLists == CoreLists \cup {core \o Filler : core \in CoreLists \ {<<>>}}

TabStates ==
    {[tab |-> UrlExample, tabs |-> {UrlExample}],
     [tab |-> UrlOther, tabs |-> {UrlOther, UrlExample}],
     [tab |-> NoUrl, tabs |-> {}]}

\* the clock: inside and outside the period window of PeriodClose
Ticks == {0, 1}

Plans ==
    {[enable |-> {"e1"}, disable |-> {"e2", "self"}],
     [enable |-> {"self", "e2"}, disable |-> {"e2"}]}

\* every rule object the configuration store can hold
RuleTable == Templates \cup {Filler[i] : i \in DOMAIN Filler} \cup {NoId}

\* the state holds a reference to a rule object: its place in the table
RuleRef(rule) == rule.id

RuleAt(ref) == CHOOSE r \in RuleTable : r.id = ref

\* the rule list read from the configuration store
RuleConfigs(refs) == [i \in DOMAIN refs |-> RuleAt(refs[i])]

-----------------------------------------------------------------------------
(* RuleIndexer *)

EmptyIndex ==
    [domainIndex |-> <<>>, sceneIndex |-> <<>>, osIndex |-> <<>>,
     allRules |-> <<>>]

\* map.get(key).add(id) on a Map<string, Set<string>>: a Set keeps the
\* insertion order of its elements
IndexAdd(map, key, id) ==
    IF key \notin DOMAIN map THEN map @@ (key :> <<id>>)
    ELSE IF id \in SeqToSet(map[key]) THEN map
    ELSE [map EXCEPT ![key] = Append(@, id)]

StripRegexDelimiters(s) ==
    IF Len(s) >= 2 /\ s[1] = "/" /\ s[Len(s)] = "/" THEN <<>> ELSE s

StripScheme(s) ==
    IF Len(s) >= 4 /\ s[1] \in {"http", "https"} /\ s[2] = ":"
       /\ s[3] = "/" /\ s[4] = "/"
    THEN SubSeq(s, 5, Len(s))
    ELSE s

\* the domain under which a pattern is indexed; <<>> stands for both ""
\* and null, which the caller does not tell apart
extractDomainFromPattern(pattern) ==
    LET domain == BeforeSlash(StripScheme(StripRegexDelimiters(
                      DropTrailingStar(DropWhileStar(pattern)))))
        parts == SplitDots(domain, <<>>)
    IN  IF Len(parts) >= 2 THEN LastTwoJoined(parts) ELSE domain

extractDomain(hostname) ==
    LET parts == SplitDots(hostname, <<>>)
    IN  IF Len(parts) >= 2 THEN LastTwoJoined(parts) ELSE hostname

\* new URL(url): a scheme, "://" and a host; anything else throws
UrlParses(url) ==
    /\ Len(url) >= 5
    /\ url[1] \notin {"*", "/", ".", ":"}
    /\ url[2] = ":" /\ url[3] = "/" /\ url[4] = "/"
    /\ url[5] \notin {"/", ":", "*"}

Hostname(url) == BeforeSlash(SubSeq(url, 5, Len(url)))

RECURSIVE IndexPatterns(_, _, _)
IndexPatterns(map, patterns, id) ==
    IF patterns = <<>> THEN map
    ELSE LET domain == extractDomainFromPattern(Head(patterns))
         IN  IndexPatterns(IF domain # <<>> THEN IndexAdd(map, domain, id)
                           ELSE map,
                           Tail(patterns), id)

RECURSIVE IndexKeys(_, _, _)
IndexKeys(map, keys, id) ==
    IF keys = <<>> THEN map
    ELSE IndexKeys(IndexAdd(map, Head(keys), id), Tail(keys), id)

RECURSIVE IndexTriggers(_, _, _)
IndexTriggers(idx, trigs, id) ==
    IF trigs = <<>> THEN idx
    ELSE LET t == Head(trigs)
             next ==
                 IF t.trigger = "urlTrigger"
                 THEN [idx EXCEPT !.domainIndex =
                                      IndexPatterns(@, t.matchUrl, id)]
                 ELSE IF t.trigger = "sceneTrigger"
                 THEN [idx EXCEPT !.sceneIndex =
                                      IndexKeys(@, t.sceneIds, id)]
                 ELSE IF t.trigger = "osTrigger"
                 THEN [idx EXCEPT !.osIndex = IndexKeys(@, t.os, id)]
                 ELSE idx
         IN  IndexTriggers(next, Tail(trigs), id)

RECURSIVE IndexRules(_, _)
IndexRules(idx, rs) ==
    IF rs = <<>> THEN idx
    ELSE LET rule == Head(rs)
         IN  IF ~rule.enable \/ rule.id = ""
             THEN IndexRules(idx, Tail(rs))
             ELSE IndexRules(
                      IndexTriggers(
                          [idx EXCEPT !.allRules =
                               IF rule.id \in DOMAIN @
                               THEN [@ EXCEPT ![rule.id] = RuleRef(rule)]
                               ELSE @ @@ (rule.id :> RuleRef(rule))],
                          rule.match.triggers, rule.id),
                      Tail(rs))

rebuildIndex(rs) == IndexRules(EmptyIndex, rs)

\* a rebuild that keeps what the maps hold
keep(idx) == idx

\* domainIndex.clear(), sceneIndex.clear(), osIndex.clear(),
\* allRules.clear()
clear(idx) == EmptyIndex

\* rebuildIndex on an indexer that has been built before
rebuildIndexOn(idx, rs) == IndexRules(clear(idx), rs)

Lookup(map, key) == IF key \in DOMAIN map THEN map[key] ELSE <<>>

\* the union of two insertion-ordered sets
RECURSIVE AddAll(_, _)
AddAll(acc, ids) ==
    IF ids = <<>> THEN acc
    ELSE AddAll(IF Head(ids) \in SeqToSet(acc) THEN acc
                ELSE Append(acc, Head(ids)),
                Tail(ids))

getRulesForUrl(idx, url) ==
    IF ~UrlParses(url) THEN <<>>
    ELSE LET hostname == Hostname(url)
             domain == extractDomain(hostname)
             byDomain == IF domain # <<>>
                         THEN Lookup(idx.domainIndex, domain)
                         ELSE <<>>
         IN  AddAll(byDomain, Lookup(idx.domainIndex, hostname))

getRulesForScene(idx, sceneId) == Lookup(idx.sceneIndex, sceneId)

getRulesForOS(idx, osType) == Lookup(idx.osIndex, osType)

\* <<rule>> when the id is known, <<>> for undefined
getRule(idx, ruleId) ==
    IF ruleId \in DOMAIN idx.allRules
    THEN <<RuleAt(idx.allRules[ruleId])>>
    ELSE <<>>

-----------------------------------------------------------------------------
(* Match evaluator (handlers/matchHandler) *)

\* wildcard match of a whole token sequence: "*" stands for any tokens
RECURSIVE WildMatch(_, _)
WildMatch(p, u) ==
    IF p = <<>> THEN u = <<>>
    ELSE IF Head(p) = "*"
    THEN WildMatch(Tail(p), u) \/ (u # <<>> /\ WildMatch(p, Tail(u)))
    ELSE u # <<>> /\ Head(u) = Head(p) /\ WildMatch(Tail(p), Tail(u))

\* a URL satisfies a pattern when the pattern occurs in it
UrlSatisfies(pattern, url) ==
    url # NoUrl /\ WildMatch(<<"*">> \o pattern \o <<"*">>, url)

UrlMatchesAny(patterns, url) ==
    \E i \in DOMAIN patterns : UrlSatisfies(patterns[i], url)

\* a URL trigger whose any semantics looks at the background tabs only
TriggerMatchBackground(t, sc, ctx, time) ==
    IF t.trigger = "urlTrigger"
    THEN [cur |-> UrlMatchesAny(t.matchUrl, ctx.tab),
          any |-> \E u \in ctx.tabs \ {ctx.tab} :
                      UrlMatchesAny(t.matchUrl, u)]
    ELSE IF t.trigger = "sceneTrigger"
    THEN LET m == sc \in SeqToSet(t.sceneIds) IN [cur |-> m, any |-> m]
    ELSE IF t.trigger = "osTrigger"
    THEN LET m == HostOs \in SeqToSet(t.os) IN [cur |-> m, any |-> m]
    ELSE IF t.trigger = "periodTrigger"
    THEN LET m == \E i \in DOMAIN t.windows :
                      t.windows[i][1] <= time /\ time <= t.windows[i][2]
         IN  [cur |-> m, any |-> m]
    ELSE [cur |-> FALSE, any |-> FALSE]

\* one trigger against the context: <<current, any>>
TriggerMatch(t, sc, ctx, time) ==
    IF t.trigger = "urlTrigger"
    THEN LET cur == UrlMatchesAny(t.matchUrl, ctx.tab)
         IN  [cur |-> cur,
              any |-> cur \/ \E u \in ctx.tabs : UrlMatchesAny(t.matchUrl, u)]
    ELSE IF t.trigger = "sceneTrigger"
    THEN LET m == sc \in SeqToSet(t.sceneIds) IN [cur |-> m, any |-> m]
    ELSE IF t.trigger = "osTrigger"
    THEN LET m == HostOs \in SeqToSet(t.os) IN [cur |-> m, any |-> m]
    ELSE IF t.trigger = "periodTrigger"
    THEN LET m == \E i \in DOMAIN t.windows :
                      t.windows[i][1] <= time /\ time <= t.windows[i][2]
         IN  [cur |-> m, any |-> m]
    ELSE [cur |-> FALSE, any |-> FALSE]

\* IMatchResult of a rule: the triggers combined by the relationship, for
\* the current and for the any semantics; no trigger is a vacuous match
isMatch(sc, rule, ctx, time) ==
    LET trigs == rule.match.triggers
        res == [i \in DOMAIN trigs |-> TriggerMatch(trigs[i], sc, ctx, time)]
    IN  IF trigs = <<>>
        THEN [isCurrentMatch |-> TRUE, isAnyMatch |-> TRUE]
        ELSE IF rule.match.relationship = "or"
        THEN [isCurrentMatch |-> \E i \in DOMAIN res : res[i].cur,
              isAnyMatch |-> \E i \in DOMAIN res : res[i].any]
        ELSE [isCurrentMatch |-> \A i \in DOMAIN res : res[i].cur,
              isAnyMatch |-> \A i \in DOMAIN res : res[i].any]

-----------------------------------------------------------------------------
(* Target resolver (handlers/targetHandler) *)

\* the explicit extension ids and the members of every referenced group
getTarget(gs, rule) ==
    SeqToSet(rule.target.extensions)
    \cup UNION {gs[i].extensions : i \in {j \in DOMAIN gs :
                                       gs[j].id \in SeqToSet(rule.target.groups)}}

-----------------------------------------------------------------------------
(* ExecuteTaskPriority and the tasks of ExecuteTaskHandler *)

NewPriority == [level |-> 0, isFallback |-> FALSE]

setPriority(p, n) == [p EXCEPT !.level = n]

setNotMatch(p) == [p EXCEPT !.isFallback = TRUE]

\* one ExecuteTask: kind is set by the accumulator's open() or close()
Task(kind, targets, reload, priority, ruleId) ==
    [kind |-> kind, targets |-> targets, reload |-> reload,
     level |-> priority.level, isFallback |-> priority.isFallback,
     rule |-> ruleId]

-----------------------------------------------------------------------------
(* Action resolver: handle, handleSimpleMode, handleAdvanceMode.  Each    *)
(* gives the tasks it appends to the round's accumulator, in order.       *)

RulePriority(rule) ==
    IF rule.priority # <<>> THEN setPriority(NewPriority, rule.priority[1])
    ELSE NewPriority

handleSimpleMode(matchResult, targetExtensions, action, rule) ==
    LET actionType == action.actionType
        matched == matchResult.isCurrentMatch
        taskPriority == RulePriority(rule)
        fallback == setNotMatch(RulePriority(rule))
        open(reload, prio) ==
            <<Task("open", targetExtensions, reload, prio, rule.id)>>
        close(reload, prio) ==
            <<Task("close", targetExtensions, reload, prio, rule.id)>>
    IN  (IF matched /\ actionType = "closeWhenMatched"
         THEN close(action.reloadAfterDisable, taskPriority) ELSE <<>>)
        \o
        (IF matched /\ actionType = "openWhenMatched"
         THEN open(action.reloadAfterEnable, taskPriority) ELSE <<>>)
        \o
        (IF actionType = "closeOnlyWhenMatched"
         THEN IF matched
              THEN close(action.reloadAfterDisable, taskPriority)
              ELSE open(action.reloadAfterEnable, fallback)
         ELSE <<>>)
        \o
        (IF actionType = "openOnlyWhenMatched"
         THEN IF matched
              THEN open(action.reloadAfterEnable, taskPriority)
              ELSE close(action.reloadAfterDisable, fallback)
         ELSE <<>>)

\* an anyMatch gate that passes the reload flag on as it is
reloadAsConfigured(matchResult, reload) == reload

\* the reload an anyMatch gate asks for: matchResult.isCurrentMatch && flag
reloadOnCurrentMatch(matchResult, reload) ==
    matchResult.isCurrentMatch /\ reload

\* the disable gates tested before the enable gates
closeThenOpen(opens, closes) == closes \o opens

\* the enable gates are tested first, the disable gates after them
openThenClose(opens, closes) == opens \o closes

handleAdvanceMode(matchResult, targetExtensions, action, rule) ==
    LET customRule == action.custom
        open(reload, prio) ==
            <<Task("open", targetExtensions, reload, prio, rule.id)>>
        close(reload, prio) ==
            <<Task("close", targetExtensions, reload, prio, rule.id)>>
        Gate(cond, tasks) == IF cond THEN tasks ELSE <<>>
    IN  IF ~action.hasCustom THEN <<>>
        ELSE openThenClose(
        Gate(/\ customRule.timeWhenEnable = "match"
             /\ customRule.urlMatchWhenEnable = "currentMatch"
             /\ matchResult.isCurrentMatch,
             open(action.reloadAfterEnable, NewPriority))
        \o
        Gate(/\ customRule.timeWhenEnable = "match"
             /\ customRule.urlMatchWhenEnable = "anyMatch"
             /\ matchResult.isAnyMatch,
             open(reloadOnCurrentMatch(matchResult, action.reloadAfterEnable),
                  NewPriority))
        \o
        Gate(/\ customRule.timeWhenEnable = "notMatch"
             /\ customRule.urlMatchWhenEnable = "currentNotMatch"
             /\ ~matchResult.isCurrentMatch,
             open(action.reloadAfterEnable, setNotMatch(NewPriority)))
        \o
        Gate(/\ customRule.timeWhenEnable = "notMatch"
             /\ customRule.urlMatchWhenEnable = "allNotMatch"
             /\ ~matchResult.isAnyMatch,
             open(action.reloadAfterEnable, setNotMatch(NewPriority))),
        Gate(/\ customRule.timeWhenDisable = "match"
             /\ customRule.urlMatchWhenDisable = "currentMatch"
             /\ matchResult.isCurrentMatch,
             close(action.reloadAfterDisable, NewPriority))
        \o
        Gate(/\ customRule.timeWhenDisable = "match"
             /\ customRule.urlMatchWhenDisable = "anyMatch"
             /\ matchResult.isAnyMatch,
             close(reloadOnCurrentMatch(matchResult,
                                        action.reloadAfterDisable),
                   NewPriority))
        \o
        Gate(/\ customRule.timeWhenDisable = "notMatch"
             /\ customRule.urlMatchWhenDisable = "currentNotMatch"
             /\ ~matchResult.isCurrentMatch,
             close(action.reloadAfterDisable, setNotMatch(NewPriority)))
        \o
        Gate(/\ customRule.timeWhenDisable = "notMatch"
             /\ customRule.urlMatchWhenDisable = "allNotMatch"
             /\ ~matchResult.isAnyMatch,
             close(action.reloadAfterDisable, setNotMatch(NewPriority))))

\* a handle that knows the simple modes only
handleSimpleOnly(targetExtensions, rule, matchResult) ==
    IF rule.action.actionType = "none" THEN <<>>
    ELSE handleSimpleMode(matchResult, targetExtensions, rule.action, rule)

handle(targetExtensions, rule, matchResult) ==
    IF rule.action.actionType = "none" THEN <<>>
    ELSE IF rule.action.actionType = "custom"
    THEN handleAdvanceMode(matchResult, targetExtensions, rule.action, rule)
    ELSE handleSimpleMode(matchResult, targetExtensions, rule.action, rule)

\* process without the filter of line 173
OwnIdKept(targetIds, selfId) == targetIds

\* the targets a rule's tasks carry: the resolved ids without the controller
OwnIdFiltered(targetIds, selfId) == targetIds \ {selfId}

\* a process that leaves out the targets that are enabled already
processSkippingEnabled(rule, sc, gs, ctx, time) ==
    IF ~rule.enable THEN <<>>
    ELSE LET matchResult == isMatch(sc, rule, ctx, time)
             targetIdArray == getTarget(gs, rule)
         IN  IF targetIdArray = {} THEN <<>>
             ELSE handle(OwnIdFiltered(targetIdArray, ctx.self) \ enabled,
                         rule, matchResult)

\* a process that spares the members of the always-on groups
processSparingAlwaysOn(rule, sc, gs, ctx, time) ==
    IF ~rule.enable THEN <<>>
    ELSE LET matchResult == isMatch(sc, rule, ctx, time)
             targetIdArray ==
                 getTarget(gs, rule)
                 \ UNION {gs[i].extensions :
                             i \in {j \in DOMAIN gs : gs[j].alwaysOn}}
         IN  IF targetIdArray = {} THEN <<>>
             ELSE handle(OwnIdFiltered(targetIdArray, ctx.self), rule,
                         matchResult)

\* a process that goes on to handle() whatever the target resolves to
processAnyTarget(rule, sc, gs, ctx, time) ==
    IF ~rule.enable THEN <<>>
    ELSE handle(OwnIdFiltered(getTarget(gs, rule), ctx.self), rule,
                isMatch(sc, rule, ctx, time))

\* process(rule, scene, groups, ctx): the tasks one rule appends
process(rule, sc, gs, ctx, time) ==
    IF ~rule.enable THEN <<>>
    ELSE LET matchResult == isMatch(sc, rule, ctx, time)
             targetIdArray == getTarget(gs, rule)
         IN  IF targetIdArray = {} THEN <<>>
             ELSE handle(OwnIdFiltered(targetIdArray, ctx.self), rule,
                         matchResult)

-----------------------------------------------------------------------------
(* processRule: narrowing through the index, sorting *)

hasTrigger(r, kind) ==
    \E i \in DOMAIN r.match.triggers : r.match.triggers[i].trigger = kind

\* rules without URL/scene/OS trigger, in the order of the rule list
nonIndexedRules(rs) ==
    SelectSeq(rs, LAMBDA r : /\ ~hasTrigger(r, "urlTrigger")
                             /\ ~hasTrigger(r, "sceneTrigger")
                             /\ ~hasTrigger(r, "osTrigger"))

\* the calls to the browser and to the storage that can fail in a
\* behaviour: management.get, management.getSelf, GroupOptions.getGroups,
\* runtime.getPlatformInfo (the rejected setEnabled calls are in
\* faults.failing)
HostCalls == {"get", "getSelf", "getGroups", "getPlatformInfo"}

Fails(call) == call \in faults.host

\* a try without catch: the error goes on to the caller
uncaught(error) == error

\* catch (error) { log }: the error ends here, the function goes on after
\* the try
caught(error) == "returned"

\* where an operation is after an error that was thrown inside a try
AfterError(pc) == IF caught("threw") = "threw" THEN "threw" ELSE pc

\* the candidate ids: URL rules, then scene rules, then OS rules (none
\* when getPlatformInfo throws: the catch skips them)
candidateRuleIds(idx, sc, ctx) ==
    AddAll(AddAll(IF ctx.tab # NoUrl THEN getRulesForUrl(idx, ctx.tab)
                  ELSE <<>>,
                  IF sc # "" THEN getRulesForScene(idx, sc) ELSE <<>>),
           IF Fails("getPlatformInfo") THEN <<>>
           ELSE getRulesForOS(idx, HostOs))

RECURSIVE indexedRules(_, _)
indexedRules(idx, ids) ==
    IF ids = <<>> THEN <<>>
    ELSE getRule(idx, Head(ids)) \o indexedRules(idx, Tail(ids))

\* whether the round narrows the rule list through the index
usesIndex(rs, idx, sc, ctx) ==
    /\ Len(rs) > IndexThreshold
    /\ LET size == Len(candidateRuleIds(idx, sc, ctx))
       IN  size > 0 /\ size < Len(rs)

rulesToProcess(rs, idx, sc, ctx) ==
    IF Len(rs) > IndexThreshold
    THEN LET ids == candidateRuleIds(idx, sc, ctx)
         IN  IF Len(ids) > 0 /\ Len(ids) < Len(rs)
             THEN indexedRules(idx, ids) \o nonIndexedRules(rs)
             ELSE rs
    ELSE rs

\* Array.prototype.sort with priorityA - priorityB: ascending and stable
RECURSIVE InsertByPriority(_, _)
InsertByPriority(sorted, r) ==
    IF sorted = <<>> THEN <<r>>
    ELSE IF PriorityOf(sorted[Len(sorted)]) <= PriorityOf(r)
    THEN Append(sorted, r)
    ELSE Append(InsertByPriority(SubSeq(sorted, 1, Len(sorted) - 1), r),
                sorted[Len(sorted)])

RECURSIVE SortInto(_, _)
SortInto(acc, rs) ==
    IF rs = <<>> THEN acc
    ELSE SortInto(InsertByPriority(acc, Head(rs)), Tail(rs))

\* a round that takes the rules as the list has them
unsortedRules(rs) == rs

sortedRules(rs) == SortInto(<<>>, rs)

-----------------------------------------------------------------------------
(* ExecuteTaskHandler.execute: conflict resolution *)

Touched(tasks) == UNION {tasks[i].targets : i \in DOMAIN tasks}

\* a resolution that looks at the fallback mark before the level
BeatsMatchedFirst(tasks, i, j) ==
    \/ ~tasks[i].isFallback /\ tasks[j].isFallback
    \/ /\ tasks[i].isFallback = tasks[j].isFallback
       /\ tasks[i].level > tasks[j].level
    \/ /\ tasks[i].isFallback = tasks[j].isFallback
       /\ tasks[i].level = tasks[j].level
       /\ i > j

\* task i beats task j for an extension: the greater (level, not fallback)
\* key, and among equal keys the task appended later
Beats(tasks, i, j) ==
    \/ tasks[i].level > tasks[j].level
    \/ /\ tasks[i].level = tasks[j].level
       /\ ~tasks[i].isFallback /\ tasks[j].isFallback
    \/ /\ tasks[i].level = tasks[j].level
       /\ tasks[i].isFallback = tasks[j].isFallback
       /\ i > j

\* the index of the winning task of extension e
Winner(tasks, e) ==
    CHOOSE i \in DOMAIN tasks :
        /\ e \in tasks[i].targets
        /\ \A j \in DOMAIN tasks \ {i} :
               e \in tasks[j].targets => Beats(tasks, i, j)

Resolve(tasks) == [e \in Touched(tasks) |-> Winner(tasks, e)]

\* an execute() that calls whatever the state is
NeedsChangeAlways(kind, e, on) == TRUE

\* whether the call for e is needed: the requested state differs
NeedsChange(kind, e, on) == (kind = "open") # (e \in on)

-----------------------------------------------------------------------------
(* State *)

Ctx(t, ts) == [self |-> SelfId, tab |-> t, tabs |-> ts]

\* order: the ids of the rules in the order the round evaluates them;
\* prev: <<the winning kinds and the number of calls of the round before>>
\* when this round repeats it on the same context with no enable/disable
\* from outside in between
IdleRound ==
    [kind |-> "none", pc |-> "idle", sc |-> "", ctx |-> Ctx(NoUrl, {}),
     order |-> <<>>, tasks |-> <<>>, winners |-> <<>>, calls |-> <<>>,
     reloaded |-> FALSE, indexed |-> FALSE, prev |-> <<>>]

InFlight == rd.pc \in {"scheduled", "executing"}

\* the winning kind of every extension a round's tasks touch
WinnerKinds(r) == [e \in DOMAIN r.winners |-> r.tasks[r.winners[e]].kind]

\* nothing around the rounds is running
NoFaults == [throwing |-> {}, failing |-> {}, host |-> {}]

\* no event yet: the timer is not armed
NoEvents == [pending |-> FALSE, since |-> 0, events |-> 0, bursts |-> <<>>,
             started |-> <<>>]

\* a cache as it is constructed: nothing cached, no call made; the clock
\* counts Date.now() from the construction
NoCache == [cache |-> <<>>, cacheTimestamp |-> 0, clock |-> 1, changes |-> 0,
            calls |-> <<>>]

StoresIdle ==
    /\ extSvc = NoCache
    /\ syncCache = NoCache
    /\ domainStore = <<>>
    /\ overlaps = {}

AuxIdle ==
    /\ mx = <<>>
    /\ ao = {}
    /\ faults = NoFaults
    /\ rounds = <<>>
    /\ handlers = <<>>
    /\ db = NoEvents
    /\ mt = <<>>
    /\ StoresIdle

Init ==
    /\ enabled \in {S \cup {SelfId} : S \in SUBSET (Exts \ {SelfId})}
    /\ rules \in {[i \in DOMAIN l |-> RuleRef(l[i])] : l \in RuleLists}
    /\ groups = GroupsCfg
    /\ tab = UrlExample
    /\ tabs = {UrlExample}
    /\ scene = "s1"
    /\ now = 0
    /\ indexer = rebuildIndex(RuleConfigs(rules))
    /\ rd = IdleRound
    /\ AuxIdle

-----------------------------------------------------------------------------
(* Rule rounds: processRule *)

\* a loop with one try around all the rules: the first throw ends it
RECURSIVE collectUntilThrow(_, _, _, _, _, _)
collectUntilThrow(rs, sc, gs, ctx, time, throwing) ==
    IF rs = <<>> \/ Head(rs).id \in throwing THEN <<>>
    ELSE process(Head(rs), sc, gs, ctx, time)
         \o collectUntilThrow(Tail(rs), sc, gs, ctx, time, throwing)

\* the loop of processRule: the tasks the rules append, in order.  A rule
\* whose process() throws (the rule object, its match or its target cannot
\* be read) is caught and logged: it has appended nothing
RECURSIVE collect(_, _, _, _, _, _)
collect(rs, sc, gs, ctx, time, throwing) ==
    IF rs = <<>> THEN <<>>
    ELSE (IF Head(rs).id \in throwing THEN <<>>
          ELSE process(Head(rs), sc, gs, ctx, time))
         \o collect(Tail(rs), sc, gs, ctx, time, throwing)

\* an event hands a round to the rule handler.  repeat says that the round
\* runs again on the context of the completed rule round before it.
ScheduleRound(sc, ctx, repeat) ==
    rd' = [IdleRound EXCEPT
              !.kind = "rule",
              !.pc = "scheduled",
              !.sc = sc,
              !.ctx = ctx,
              !.prev = IF repeat /\ rd.kind = "rule" /\ rd.pc = "done"
                       THEN <<[winners |-> WinnerKinds(rd),
                               calls |-> Len(rd.calls)]>>
                       ELSE <<>>]

\* processRule up to the call of execute(): a fresh accumulator, the rules
\* narrowed through the index, sorted and processed one after the other
processRule ==
    /\ rd.kind = "rule"
    /\ rd.pc = "scheduled"
    /\ LET rs == RuleConfigs(rules)
           sorted == sortedRules(rulesToProcess(rs, indexer, rd.sc, rd.ctx))
           thrown == \/ Len(rs) > IndexThreshold /\ Fails("getPlatformInfo")
                     \/ \E i \in DOMAIN sorted : sorted[i].id \in faults.throwing
       IN  rd' = [rd EXCEPT
                     !.pc = IF thrown THEN AfterError("executing")
                            ELSE "executing",
                     !.order = [i \in DOMAIN sorted |-> sorted[i].id],
                     !.tasks = collect(sorted, rd.sc, groups, rd.ctx, now,
                                       faults.throwing),
                     !.indexed = usesIndex(rs, indexer, rd.sc, rd.ctx)]
    /\ UNCHANGED <<enabled, rules, groups, tab, tabs, scene, now, indexer>>
    /\ UNCHANGED aux

\* the active tab or the set of open tabs changes
OnTabChanged ==
    /\ ~InFlight
    /\ \E ts \in TabStates :
          /\ <<ts.tab, ts.tabs>> # <<tab, tabs>>
          /\ tab' = ts.tab
          /\ tabs' = ts.tabs
          /\ now' = now
          /\ ScheduleRound(scene, Ctx(ts.tab, ts.tabs), FALSE)
    /\ UNCHANGED <<enabled, rules, groups, scene, indexer>>
    /\ UNCHANGED aux

\* the user switches the scene
OnSceneChanged ==
    /\ ~InFlight
    /\ \E s \in Scenes \ {scene} :
          /\ scene' = s
          /\ now' = now
          /\ ScheduleRound(s, Ctx(tab, tabs), FALSE)
    /\ UNCHANGED <<enabled, rules, groups, tab, tabs, indexer>>
    /\ UNCHANGED aux

\* the periodic timer: time has passed
OnTimer ==
    /\ ~InFlight
    /\ \E t \in Ticks \ {now} :
          /\ now' = t
          /\ ScheduleRound(scene, Ctx(tab, tabs), FALSE)
    /\ UNCHANGED <<enabled, rules, groups, tab, tabs, scene, indexer>>
    /\ UNCHANGED aux

\* an extension enabled/disabled notification: a round on the same context
OnExtensionEvent ==
    /\ ~InFlight
    /\ now' = now
    /\ ScheduleRound(scene, Ctx(tab, tabs), TRUE)
    /\ UNCHANGED <<enabled, rules, groups, tab, tabs, scene, indexer>>
    /\ UNCHANGED aux

-----------------------------------------------------------------------------
(* ExecuteTaskHandler.execute *)

\* an execute() without conflict resolution: one call for every task that
\* asks for a change of the extension
RECURSIVE CallsPerTask(_, _, _, _)
CallsPerTask(tasks, winners, todo, on) ==
    IF todo = {} THEN <<>>
    ELSE LET e == CHOOSE x \in todo : TRUE
             asking == SelectSeq(tasks, LAMBDA t : /\ e \in t.targets
                                                   /\ NeedsChange(t.kind, e, on))
         IN  [i \in DOMAIN asking |-> [id |-> e, kind |-> asking[i].kind]]
             \o CallsPerTask(tasks, winners, todo \ {e}, on)

\* the state-change calls of execute(): one for every extension whose
\* state differs from the state its winning task requests
RECURSIVE Calls(_, _, _, _)
Calls(tasks, winners, todo, on) ==
    IF todo = {} THEN <<>>
    ELSE LET e == CHOOSE x \in todo : TRUE
             kind == tasks[winners[e]].kind
         IN  (IF NeedsChange(kind, e, on)
              THEN <<[id |-> e, kind |-> kind]>>
              ELSE <<>>)
             \o Calls(tasks, winners, todo \ {e}, on)

\* an execute() that gives up at the first call the browser rejects
RECURSIVE issuedUntilFailure(_, _)
issuedUntilFailure(calls, failing) ==
    IF calls = <<>> THEN <<>>
    ELSE IF Head(calls).id \in failing THEN <<Head(calls)>>
    ELSE <<Head(calls)>> \o issuedUntilFailure(Tail(calls), failing)

\* the calls execute() issues when the browser rejects the calls for the
\* extensions in failing: every call once, a rejected call is logged
issued(calls, failing) == calls

\* the calls the browser accepted
accepted(calls, failing) == SelectSeq(calls, LAMBDA c : c.id \notin failing)

\* the browser after the calls
Applied(calls, on) ==
    (on \cup {calls[i].id : i \in {j \in DOMAIN calls :
                                      calls[j].kind = "open"}})
    \ {calls[i].id : i \in {j \in DOMAIN calls : calls[j].kind = "close"}}

\* execute(): the conflicts are resolved, the calls issued and awaited, the
\* affected tab reloaded when a winning task asked for it
execute ==
    /\ rd.pc = "executing"
    /\ LET winners == Resolve(rd.tasks)
           calls == issued(Calls(rd.tasks, winners, DOMAIN winners, enabled),
                           faults.failing)
       IN  /\ enabled' = Applied(accepted(calls, faults.failing), enabled)
           /\ rd' = [rd EXCEPT
                        !.winners = winners,
                        !.calls = calls,
                        !.reloaded = \E e \in DOMAIN winners :
                                         rd.tasks[winners[e]].reload,
                        !.pc = "done"]
    /\ UNCHANGED <<rules, groups, tab, tabs, scene, now, indexer>>

\* the execute() of the round in rd
RoundExecute ==
    /\ execute
    /\ UNCHANGED aux

-----------------------------------------------------------------------------
(* AlwaysOnGroupHandler.enableAlwaysOnExtensions *)

alwaysOnIds(gs) ==
    UNION {gs[i].extensions : i \in {j \in DOMAIN gs : gs[j].alwaysOn}}

\* an enforcement that asks for every member, enabled or not
extensionsToEnableAlways(gs, selfId, on) ==
    {e \in alwaysOnIds(gs) \cap Installed : e # selfId}

\* management.get throws for an id that is not installed: the id is skipped
extensionsToEnable(gs, selfId, on) ==
    {e \in alwaysOnIds(gs) \cap Installed : e # selfId /\ e \notin on}

enableAlwaysOnExtensions ==
    /\ ~InFlight
    /\ LET toEnable == IF Fails("get") THEN {}
                       ELSE extensionsToEnable(groups, SelfId, enabled)
           thrown == \/ Fails("getGroups")
                     \/ alwaysOnIds(groups) # {} /\ Fails("getSelf")
                     \/ alwaysOnIds(groups) \ {SelfId} # {} /\ Fails("get")
       IN  rd' = IF thrown
                 THEN [IdleRound EXCEPT !.kind = "alwaysOn",
                                        !.pc = AfterError("done")]
                 ELSE IF toEnable = {}
                 THEN [IdleRound EXCEPT !.kind = "alwaysOn", !.pc = "done"]
                 ELSE [IdleRound EXCEPT
                          !.kind = "alwaysOn",
                          !.pc = "executing",
                          !.ctx = Ctx(tab, tabs),
                          !.tasks = <<Task("open", toEnable, FALSE,
                                           NewPriority, "")>>]
    /\ UNCHANGED <<enabled, rules, groups, tab, tabs, scene, now, indexer>>
    /\ UNCHANGED aux

-----------------------------------------------------------------------------
(* AIAssistantService.executeActionPlan *)

planTargets(ids, selfId) == {e \in ids : e # selfId}

executeActionPlan ==
    /\ ~InFlight
    /\ \E plan \in Plans :
          rd' = [IdleRound EXCEPT
                    !.kind = "ai",
                    !.pc = "executing",
                    !.ctx = Ctx(tab, tabs),
                    !.tasks =
                        (IF plan.enable # {}
                         THEN <<Task("open", planTargets(plan.enable, SelfId),
                                     FALSE, NewPriority, "")>>
                         ELSE <<>>)
                        \o
                        (IF plan.disable # {}
                         THEN <<Task("close",
                                     planTargets(plan.disable, SelfId),
                                     FALSE, NewPriority, "")>>
                         ELSE <<>>)]
    /\ UNCHANGED <<enabled, rules, groups, tab, tabs, scene, now, indexer>>
    /\ UNCHANGED aux

-----------------------------------------------------------------------------
(* The user, or anything else outside the rounds, enables or disables an  *)
(* extension between two rounds                                            *)

Toggle ==
    /\ ~InFlight
    /\ \E e \in Exts \ {SelfId} :
          enabled' = IF e \in enabled THEN enabled \ {e}
                     ELSE enabled \cup {e}
    /\ rd' = IdleRound
    /\ UNCHANGED <<rules, groups, tab, tabs, scene, now, indexer>>
    /\ UNCHANGED aux

-----------------------------------------------------------------------------

Next ==
    \/ OnTabChanged
    \/ OnSceneChanged
    \/ OnTimer
    \/ OnExtensionEvent
    \/ processRule
    \/ RoundExecute
    \/ enableAlwaysOnExtensions
    \/ executeActionPlan
    \/ Toggle

Spec == Init /\ [][Next]_vars

-----------------------------------------------------------------------------
(* Properties of the rounds *)

\* the rule list handed to the round in rd
roundRules == RuleConfigs(rules)

RuleRound == rd.kind = "rule" /\ rd.pc \in {"executing", "done"}

RuleRoundDone == rd.kind = "rule" /\ rd.pc = "done"

\* the tasks of the round in rd that the rule with this id appended
TasksOf(ruleId) == SelectSeq(rd.tasks, LAMBDA t : t.rule = ruleId)

\* the match result of a rule in the context of the round in rd
MatchOf(rule) == isMatch(rd.sc, rule, rd.ctx, now)

\* what a rule appends when the round evaluates it
Evaluated(rule) == process(rule, rd.sc, groups, rd.ctx, now)

\* the action execute() left applied to extension e
AppliedKind(e) == IF e \in enabled THEN "open" ELSE "close"

\* task i of the round has a (level, not fallback) key at least that of j
KeyAtLeast(i, j) ==
    \/ rd.tasks[i].level > rd.tasks[j].level
    \/ /\ rd.tasks[i].level = rd.tasks[j].level
       /\ (rd.tasks[j].isFallback \/ ~rd.tasks[i].isFallback)

\* the rules at a and b of the list are the only ones whose tasks touch e,
\* and each of them appends exactly one task
OnlyPairOn(a, b, e) ==
    /\ roundRules[a].enable /\ roundRules[b].enable
    /\ Len(Evaluated(roundRules[a])) = 1
    /\ Len(Evaluated(roundRules[b])) = 1
    /\ e \in Evaluated(roundRules[a])[1].targets
    /\ e \in Evaluated(roundRules[b])[1].targets
    /\ \A c \in DOMAIN roundRules \ {a, b} :
           e \notin Touched(Evaluated(roundRules[c]))

\* C1: in every round (rule round, always-on enforcement, AI action plan)
\* no task targets the controller's own id and no call is issued for it.
C1_NoTaskTargetsSelf ==
    /\ \A i \in DOMAIN rd.tasks : SelfId \notin rd.tasks[i].targets
    /\ \A i \in DOMAIN rd.calls : rd.calls[i].id # SelfId

\* a completed rule round with a close task of a rule whose resolved
\* target holds the controller
C1_Witness ==
    /\ RuleRoundDone
    /\ \E i \in DOMAIN rd.tasks :
          /\ rd.tasks[i].kind = "close"
          /\ rd.tasks[i].targets # {}
          /\ SelfId \in getTarget(groups, RuleAt(rd.tasks[i].rule))

\* C2: for every extension id of a round's tasks execute() issues at most
\* one state-change call, and it issues calls for no other id.
C2_AtMostOneCall ==
    /\ \A i, j \in DOMAIN rd.calls :
           rd.calls[i].id = rd.calls[j].id => i = j
    /\ \A i \in DOMAIN rd.calls : rd.calls[i].id \in Touched(rd.tasks)

\* a completed round in which two tasks asked contradictory actions of one
\* extension and a call was issued for it
C2_Witness ==
    /\ rd.pc = "done"
    /\ \E i, j \in DOMAIN rd.tasks : \E c \in DOMAIN rd.calls :
          /\ rd.tasks[i].kind # rd.tasks[j].kind
          /\ rd.calls[c].id \in rd.tasks[i].targets \cap rd.tasks[j].targets

\* C3: after execute(), the action applied to every extension of the
\* round's tasks is the action of a task that targets it and whose
\* (level, not fallback) key no other task on that extension exceeds,
\* wherever in the accumulator that task stands.
C3_GreatestKeyWins ==
    rd.pc = "done" =>
        \A e \in Touched(rd.tasks) :
            \E i \in DOMAIN rd.tasks :
                /\ e \in rd.tasks[i].targets
                /\ rd.tasks[i].kind = AppliedKind(e)
                /\ \A j \in DOMAIN rd.tasks :
                       e \in rd.tasks[j].targets => KeyAtLeast(i, j)

\* a fallback task at a higher level has beaten a matched task of the
\* other kind at a lower level
C3_Witness ==
    /\ rd.pc = "done"
    /\ \E e \in Touched(rd.tasks) : \E i, j \in DOMAIN rd.tasks :
          /\ e \in rd.tasks[i].targets \cap rd.tasks[j].targets
          /\ rd.tasks[i].isFallback /\ ~rd.tasks[j].isFallback
          /\ rd.tasks[i].level > rd.tasks[j].level
          /\ rd.tasks[i].kind # rd.tasks[j].kind
          /\ rd.tasks[i].kind = AppliedKind(e)

\* C4: when two enabled rules of equal priority ask contradictory actions
\* of equal fallback status of an extension that no other rule touches, the
\* round applies the action of the rule that stands later in the rule list.
C4_LaterRuleWins ==
    RuleRoundDone =>
        \A a, b \in DOMAIN roundRules : \A e \in Exts :
            (/\ a < b
             /\ PriorityOf(roundRules[a]) = PriorityOf(roundRules[b])
             /\ OnlyPairOn(a, b, e)
             /\ Evaluated(roundRules[a])[1].isFallback
                    = Evaluated(roundRules[b])[1].isFallback
             /\ Evaluated(roundRules[a])[1].kind
                    # Evaluated(roundRules[b])[1].kind)
            => AppliedKind(e) = Evaluated(roundRules[b])[1].kind

\* C5: when an OnlyWhenMatched rule that is not matched and a matched rule of
\* the same priority ask opposite actions of an extension that no other rule
\* touches, the round applies the action of the matched rule.
C5_MatchedBeatsFallback ==
    RuleRoundDone =>
        \A f, m \in DOMAIN roundRules : \A e \in Exts :
            (/\ f # m
             /\ PriorityOf(roundRules[f]) = PriorityOf(roundRules[m])
             /\ OnlyPairOn(f, m, e)
             /\ roundRules[f].action.actionType
                    \in {"openOnlyWhenMatched", "closeOnlyWhenMatched"}
             /\ ~MatchOf(roundRules[f]).isCurrentMatch
             /\ Evaluated(roundRules[f])[1].isFallback
             /\ MatchOf(roundRules[m]).isCurrentMatch
             /\ ~Evaluated(roundRules[m])[1].isFallback
             /\ Evaluated(roundRules[f])[1].kind
                    # Evaluated(roundRules[m])[1].kind)
            => AppliedKind(e) = Evaluated(roundRules[m])[1].kind

\* C6: a round that narrows its rules through the index accumulates the
\* same set of tasks as the evaluation of every rule of the list.
C6_IndexEqualsFullScan ==
    (RuleRound /\ rd.indexed) =>
        SeqToSet(rd.tasks)
            = SeqToSet(collect(sortedRules(roundRules), rd.sc, groups,
                               rd.ctx, now, {}))

\* C7: in every round each enabled OnlyWhenMatched rule of the rule list
\* with a non-empty resolved target has exactly one task: of the primary
\* kind and not fallback when the rule is currently matched, of the
\* opposite kind and fallback when it is not, at the level of its priority.
C7_OnlyRulesAlwaysFire ==
    RuleRound =>
        \A a \in DOMAIN roundRules :
            LET rule == roundRules[a]
                matched == MatchOf(rule).isCurrentMatch
                primary == IF rule.action.actionType = "openOnlyWhenMatched"
                           THEN "open" ELSE "close"
                opposite == IF primary = "open" THEN "close" ELSE "open"
            IN  (/\ rule.enable
                 /\ rule.action.actionType
                        \in {"openOnlyWhenMatched", "closeOnlyWhenMatched"}
                 /\ getTarget(groups, rule) # {})
                => /\ Len(TasksOf(rule.id)) = 1
                   /\ TasksOf(rule.id)[1].level = PriorityOf(rule)
                   /\ TasksOf(rule.id)[1].isFallback = ~matched
                   /\ TasksOf(rule.id)[1].kind
                          = IF matched THEN primary ELSE opposite

\* C8: in every round each enabled openWhenMatched (closeWhenMatched) rule
\* of the rule list with a non-empty resolved target has exactly one open
\* (close) task for its targets when it is currently matched and no task
\* when it is not; a round of one such matched rule has that task only.
C8_WhenMatchedRulesFireOnMatch ==
    RuleRound =>
        \A a \in DOMAIN roundRules :
            LET rule == roundRules[a]
                matched == MatchOf(rule).isCurrentMatch
            IN  (/\ rule.enable
                 /\ rule.action.actionType
                        \in {"openWhenMatched", "closeWhenMatched"}
                 /\ getTarget(groups, rule) # {})
                => IF matched
                   THEN /\ Len(TasksOf(rule.id)) = 1
                        /\ TasksOf(rule.id)[1].kind
                               = IF rule.action.actionType = "openWhenMatched"
                                 THEN "open" ELSE "close"
                        /\ TasksOf(rule.id)[1].targets
                               = getTarget(groups, rule) \ {SelfId}
                        /\ ~TasksOf(rule.id)[1].isFallback
                        /\ Len(roundRules) = 1 => Len(rd.tasks) = 1
                   ELSE TasksOf(rule.id) = <<>>

\* C9: a rule round that repeats the round before it on the same rule list,
\* groups, scene, tab and open tabs has the same winning action for every
\* extension, whatever enabled states the first run left behind.
C9_SameWinnersOnRepeat ==
    (RuleRoundDone /\ rd.prev # <<>>) =>
        WinnerKinds(rd) = rd.prev[1].winners

\* the round repeats a round that changed the enabled states and that had
\* to resolve a conflict
C9_Witness ==
    /\ RuleRoundDone
    /\ rd.prev # <<>>
    /\ rd.prev[1].calls > 0
    /\ \E i, j \in DOMAIN rd.tasks :
          /\ rd.tasks[i].kind # rd.tasks[j].kind
          /\ rd.tasks[i].targets \cap rd.tasks[j].targets # {}

\* C10: execute() issues a call only for an extension whose enabled state
\* differs from the state the call asks for, and the execute() of a round
\* that repeats the round before it issues no call.
C10_OnlyNeededCalls ==
    [][(rd.pc = "executing" /\ rd'.pc = "done") =>
          /\ \A i \in DOMAIN rd'.calls :
                 (rd'.calls[i].kind = "open") # (rd'.calls[i].id \in enabled)
          /\ rd.prev # <<>> => rd'.calls = <<>>]_vars

\* a repeated round that issued no call although its winning tasks touch
\* extensions and the round before it had issued calls
C10_Witness ==
    /\ RuleRoundDone
    /\ rd.prev # <<>>
    /\ rd.prev[1].calls > 0
    /\ DOMAIN rd.winners # {}
    /\ rd.calls = <<>>

-----------------------------------------------------------------------------
(* MutexGroupHandler: handleExtensionEnabled                               *)
(*                                                                         *)
(* Every onEnabled notification starts one run of the handler.  The runs   *)
(* are asynchronous: between the awaited calls of a run (getGroups,        *)
(* management.get, management.setEnabled) the other runs, the user and the *)
(* options page take their steps.                                          *)

\* the enabled notifications of one behaviour
MaxEnables == 2

MxExts == Installed

ExtOrder == <<"self", "e1", "e2", "e3">>

\* group.extensions of the configuration store: the members as an array
Members(g) == SelectSeq(ExtOrder, LAMBDA e : e \in g.extensions)

MutexGroupsCfg ==
    << [id |-> "m1", extensions |-> {"self", "e1", "e2"}, alwaysOn |-> FALSE,
        isMutex |-> FALSE],
       [id |-> "m2", extensions |-> {"e2", "e3"}, alwaysOn |-> FALSE,
        isMutex |-> FALSE],
       [id |-> "m3", extensions |-> {}, alwaysOn |-> FALSE,
        isMutex |-> TRUE] >>

mutexGroups(gs) == SelectSeq(gs, LAMBDA g : g.isMutex = TRUE)

\* a filter that forgets the controller
otherExtensionsWithSelf(g, enabledExtensionId, selfId) ==
    SelectSeq(Members(g), LAMBDA id : id # enabledExtensionId)

otherExtensions(g, enabledExtensionId, selfId) ==
    SelectSeq(Members(g),
              LAMBDA id : id # enabledExtensionId /\ id # selfId)

\* the extensions a run looks at, in the order of its two loops
RECURSIVE visits(_, _, _)
visits(mgs, enabledExtensionId, selfId) ==
    IF mgs = <<>> THEN <<>>
    ELSE LET group == Head(mgs)
         IN  (IF group.extensions # {}
                 /\ enabledExtensionId \in group.extensions
              THEN otherExtensions(group, enabledExtensionId, selfId)
              ELSE <<>>)
             \o visits(Tail(mgs), enabledExtensionId, selfId)

\* a run of handleExtensionEnabled(id).  gs: the groups it read; todo: the
\* extensions still to look at; seen: what management.get answered; calls:
\* the extensions it disabled
NewRun(id) ==
    [id |-> id, pc |-> "start", gs |-> <<>>, todo |-> <<>>, seen |-> <<>>,
     calls |-> <<>>]

\* the position after the head of todo is dealt with
NextPc(todo) == IF Len(todo) > 1 THEN "get" ELSE "done"

InitMutex ==
    /\ enabled \in {S \cup {SelfId} : S \in SUBSET (MxExts \ {SelfId})}
    /\ rules = <<>>
    /\ groups = MutexGroupsCfg
    /\ tab = NoUrl
    /\ tabs = {}
    /\ scene = "s1"
    /\ now = 0
    /\ indexer = rebuildIndex(<<>>)
    /\ rd = IdleRound
    /\ AuxIdle

\* an extension goes from disabled to enabled (the user, a rule round):
\* chrome.management.onEnabled fires and the listener starts a run
onEnabled ==
    /\ Len(mx) < MaxEnables
    /\ \E e \in MxExts \ ({SelfId} \cup enabled) :
          /\ enabled' = enabled \cup {e}
          /\ mx' = Append(mx, NewRun(e))
    /\ UNCHANGED <<rules, groups, tab, tabs, scene, now, indexer, rd>>

EnableExtension ==
    /\ onEnabled
    /\ UNCHANGED notMx

\* an extension goes from enabled to disabled: no run starts
DisableExtension ==
    /\ \E e \in enabled \ {SelfId} : enabled' = enabled \ {e}
    /\ UNCHANGED <<rules, groups, tab, tabs, scene, now, indexer, rd, mx>>
    /\ UNCHANGED notMx

\* the options page saves a group with the mutex switch flipped
UpdateGroup ==
    /\ \E i \in DOMAIN groups :
          /\ groups[i].extensions # {}
          /\ groups' = [groups EXCEPT ![i].isMutex = ~groups[i].isMutex]
    /\ UNCHANGED <<enabled, rules, tab, tabs, scene, now, indexer, rd, mx>>
    /\ UNCHANGED notMx

\* getSelf, getGroups, the filter on isMutex
MutexStart(i) ==
    /\ mx[i].pc = "start"
    /\ LET todo == visits(mutexGroups(groups), mx[i].id, SelfId)
       IN  mx' = IF Fails("getSelf") \/ (mx[i].id # SelfId /\ Fails("getGroups"))
                 THEN [mx EXCEPT ![i].pc = AfterError("done")]
                 ELSE [mx EXCEPT ![i].gs = groups,
                                 ![i].todo = todo,
                                 ![i].pc = IF mx[i].id = SelfId \/ todo = <<>>
                                           THEN "done" ELSE "get"]
    /\ UNCHANGED <<enabled, rules, groups, tab, tabs, scene, now, indexer, rd>>
    /\ UNCHANGED notMx

\* management.get(extId) and the test of info.enabled
MutexGet(i) ==
    /\ mx[i].pc = "get"
    /\ LET extId == Head(mx[i].todo)
           on == extId \in enabled
       IN  mx' = IF Fails("get")
                 THEN [mx EXCEPT ![i].todo = Tail(@),
                                 ![i].pc = AfterError(NextPc(mx[i].todo))]
                 ELSE [mx EXCEPT
                         ![i].seen = Append(@, [id |-> extId, enabled |-> on]),
                         ![i].todo = IF on THEN @ ELSE Tail(@),
                         ![i].pc = IF on THEN "set" ELSE NextPc(mx[i].todo)]
    /\ UNCHANGED <<enabled, rules, groups, tab, tabs, scene, now, indexer, rd>>
    /\ UNCHANGED notMx

\* a call that flips the state it finds
setEnabledFlip(on, extId, value) ==
    IF extId \in on THEN on \ {extId} ELSE on \cup {extId}

\* chrome.management.setEnabled(extId, value): the state asked for,
\* whatever the state was
setEnabled(on, extId, value) ==
    IF value THEN on \cup {extId} ELSE on \ {extId}

\* management.setEnabled(extId, false)
MutexSet(i) ==
    /\ mx[i].pc = "set"
    /\ LET extId == Head(mx[i].todo)
       IN  /\ enabled' = IF extId \in faults.failing THEN enabled
                          ELSE setEnabled(enabled, extId, FALSE)
           /\ mx' = [mx EXCEPT ![i].calls = Append(@, extId),
                                ![i].todo = Tail(@),
                                ![i].pc = IF extId \in faults.failing
                                          THEN AfterError(NextPc(mx[i].todo))
                                          ELSE NextPc(mx[i].todo)]
    /\ UNCHANGED <<rules, groups, tab, tabs, scene, now, indexer, rd>>
    /\ UNCHANGED notMx

handleExtensionEnabled ==
    \E i \in DOMAIN mx : MutexStart(i) \/ MutexGet(i) \/ MutexSet(i)

NextMutex ==
    \/ EnableExtension
    \/ DisableExtension
    \/ UpdateGroup
    \/ handleExtensionEnabled

SpecMutex == InitMutex /\ [][NextMutex]_vars

\* every run of the handler has completed
Quiescent == \A i \in DOMAIN mx : mx[i].pc = "done"

\* the members, other than A and the controller, of the mutex groups of A
\* among the groups gs
MutexPeers(gs, A) ==
    UNION {gs[k].extensions :
              k \in {j \in DOMAIN gs : gs[j].isMutex /\ A \in gs[j].extensions}}
    \ {A, SelfId}

\* C11: a completed run of the handler for an extension A has looked at
\* every other member of A's mutex groups, has issued exactly one disable
\* for every member it found enabled and none for a member it found
\* disabled, and has disabled neither A nor the controller; for a group of
\* two it is one disable of the other member.
C11_DisablesOtherEnabledMembers ==
    \A i \in DOMAIN mx :
        mx[i].pc = "done" =>
            LET h == mx[i]
                found == {k \in DOMAIN h.seen : h.seen[k].enabled}
            IN  /\ {h.seen[k].id : k \in DOMAIN h.seen} = MutexPeers(h.gs, h.id)
                /\ SeqToSet(h.calls) = {h.seen[k].id : k \in found}
                /\ Len(h.calls) = Cardinality(found)
                /\ h.id \notin SeqToSet(h.calls)
                /\ SelfId \notin SeqToSet(h.calls)
                /\ Cardinality(MutexPeers(h.gs, h.id)) = 1 =>
                       Len(h.calls) <= 1

\* e3 was enabled while e2, the other member of the mutex group m2, was
\* enabled, and a second run found a member already disabled
C11_Witness ==
    \E i, j \in DOMAIN mx :
        /\ mx[i].pc = "done" /\ mx[j].pc = "done"
        /\ mx[i].id = "e3" /\ mx[i].calls = <<"e2">>
        /\ ~mx[i].gs[1].isMutex
        /\ mx[j].id = "e1" /\ mx[j].calls = <<>>
        /\ mx[j].seen # <<>>

\* C12: whenever every run of the handler has completed, at most one member
\* other than the controller of every mutex group is enabled.
C12_OneEnabledPerMutexGroup ==
    Quiescent =>
        \A k \in DOMAIN groups :
            groups[k].isMutex =>
                Cardinality((groups[k].extensions \ {SelfId}) \cap enabled) <= 1

-----------------------------------------------------------------------------
(* Always-on enforcement next to the rule rounds                           *)
(*                                                                         *)
(* enableAlwaysOnExtensions runs at startup and after a scene switch by    *)
(* keyboard; the rule rounds run on their own events.  ao remembers which  *)
(* extensions an enforcement pass has enabled.                             *)

\* groups with a member that is not installed ("gone")
AlwaysOnCfgs ==
    {<< [id |-> "g1", extensions |-> {"self", "e1", "gone"},
         alwaysOn |-> a, isMutex |-> FALSE],
        [id |-> "g2", extensions |-> {"e1", "e2"}, alwaysOn |-> b,
         isMutex |-> FALSE],
        [id |-> "g3", extensions |-> {}, alwaysOn |-> TRUE,
         isMutex |-> FALSE] >> : a, b \in BOOLEAN}

AlwaysOnRuleLists ==
    {<<CloseUrl>>, <<OpenUrl>>, <<PeriodClose, OpenOnly5>>}

InitAlwaysOn ==
    /\ enabled \in {S \cup {SelfId} : S \in SUBSET (Installed \ {SelfId})}
    /\ rules \in {[i \in DOMAIN l |-> RuleRef(l[i])] : l \in AlwaysOnRuleLists}
    /\ groups \in AlwaysOnCfgs
    /\ tab = UrlExample
    /\ tabs = {UrlExample}
    /\ scene = "s1"
    /\ now = 0
    /\ indexer = rebuildIndex(RuleConfigs(rules))
    /\ rd = IdleRound
    /\ AuxIdle

\* the execute() of the round in rd; an enforcement pass leaves in ao the
\* extensions it enabled
AlwaysOnExecute ==
    /\ execute
    /\ ao' = IF rd.kind = "alwaysOn"
             THEN ao \cup {rd'.calls[i].id : i \in DOMAIN rd'.calls}
             ELSE ao
    /\ UNCHANGED notAo

NextAlwaysOn ==
    \/ OnTabChanged
    \/ OnTimer
    \/ processRule
    \/ enableAlwaysOnExtensions
    \/ AlwaysOnExecute
    \/ Toggle

SpecAlwaysOn == InitAlwaysOn /\ [][NextAlwaysOn]_vars

\* the installed members, other than the controller, of the groups with
\* alwaysOn = true that are disabled
DisabledAlwaysOn ==
    {e \in Installed \ {SelfId} :
        /\ e \notin enabled
        /\ \E k \in DOMAIN groups :
              groups[k].alwaysOn /\ e \in groups[k].extensions}

\* C13: an enforcement pass requests enable for exactly the installed,
\* disabled members other than the controller of the always-on groups, and
\* its execute() issues exactly these enable calls; when there is no such
\* member the pass ends without a request and without a call.
C13_EnablesExactlyDisabledMembers ==
    [][/\ (rd'.kind = "alwaysOn" /\ rd' # rd /\ rd.pc # "executing") =>
              IF DisabledAlwaysOn = {}
              THEN rd'.pc = "done" /\ rd'.tasks = <<>> /\ rd'.calls = <<>>
              ELSE /\ rd'.pc = "executing"
                   /\ Len(rd'.tasks) = 1
                   /\ rd'.tasks[1].kind = "open"
                   /\ rd'.tasks[1].targets = DisabledAlwaysOn
       /\ (rd.kind = "alwaysOn" /\ rd.pc = "executing" /\ rd'.pc = "done") =>
              /\ {rd'.calls[i] : i \in DOMAIN rd'.calls}
                     = {[id |-> e, kind |-> "open"] : e \in DisabledAlwaysOn}
              /\ Len(rd'.calls) = Cardinality(DisabledAlwaysOn)
              /\ enabled' = enabled \cup DisabledAlwaysOn]_vars

\* a pass that enabled e1 while e2 of the same always-on group was enabled
\* and the member that is not installed was left out
C13_Witness ==
    /\ rd.kind = "alwaysOn"
    /\ rd.pc = "done"
    /\ groups[1].alwaysOn /\ groups[2].alwaysOn
    /\ Len(rd.calls) = 1
    /\ rd.calls[1].id = "e1"
    /\ "gone" \in alwaysOnIds(groups)

\* a pass that found every member enabled and issued no call
C13_WitnessNothingToDo ==
    /\ rd.kind = "alwaysOn"
    /\ rd.pc = "done"
    /\ rd.tasks = <<>>
    /\ (alwaysOnIds(groups) \cap Installed) \ {SelfId} # {}

\* the step is the execute() of a rule round
RuleExecuteStep == rd.kind = "rule" /\ rd.pc = "executing" /\ rd'.pc = "done"

-----------------------------------------------------------------------------
(* Rounds with faults: rules whose processing throws, state-change calls   *)
(* the browser rejects                                                     *)

FaultRuleLists ==
    {<<OpenUrl, PeriodClose, SceneOpen5>>, <<Custom5, CloseUrl, OpenOnly5>>}

InitFaults ==
    /\ enabled \in {S \cup {SelfId} : S \in SUBSET (Exts \ {SelfId})}
    /\ rules \in {[i \in DOMAIN l |-> RuleRef(l[i])] : l \in FaultRuleLists}
    /\ groups = GroupsCfg
    /\ tab = UrlExample
    /\ tabs = {UrlExample}
    /\ scene = "s1"
    /\ now = 0
    /\ indexer = rebuildIndex(RuleConfigs(rules))
    /\ rd = IdleRound
    /\ mx = <<>>
    /\ ao = {}
    /\ rounds = <<>>
    /\ handlers = <<>>
    /\ db = NoEvents
    /\ mt = <<>>
    /\ StoresIdle
    /\ faults \in [host : {{}}, throwing : SUBSET SeqToSet(rules),
                   failing : SUBSET (Exts \ {SelfId})]

NextFaults ==
    \/ OnTabChanged
    \/ OnTimer
    \/ processRule
    \/ RoundExecute
    \/ executeActionPlan
    \/ Toggle

SpecFaults == InitFaults /\ [][NextFaults]_vars

\* the number of calls of a round for extension e
CallsFor(r, e) == Cardinality({i \in DOMAIN r.calls : r.calls[i].id = e})

\* C15: in an execute() some of whose calls the browser rejects, every
\* extension whose state differs from what its winning task asks gets
\* exactly one call, whether or not the call of another extension was
\* rejected: no call is left out and none is repeated, and the calls that
\* the browser accepts take effect.
C15_FailedCallDoesNotBlock ==
    [][(rd.pc = "executing" /\ rd'.pc = "done") =>
          \A e \in Touched(rd.tasks) :
              LET kind == rd.tasks[Winner(rd.tasks, e)].kind
                  wanted == (kind = "open") # (e \in enabled)
              IN  /\ CallsFor(rd', e) = IF wanted THEN 1 ELSE 0
                  /\ (wanted /\ e \notin faults.failing) =>
                         ((e \in enabled') <=> (kind = "open"))
                  /\ (wanted /\ e \in faults.failing) =>
                         ((e \in enabled') <=> (e \in enabled))]_vars

\* a completed round whose first call was rejected and whose second call
\* was issued and took effect
C15_Witness ==
    /\ rd.pc = "done"
    /\ Len(rd.calls) = 2
    /\ rd.calls[1].id \in faults.failing
    /\ rd.calls[2].id \notin faults.failing
    /\ (rd.calls[2].id \in enabled) <=> (rd.calls[2].kind = "open")
    /\ (rd.calls[1].id \in enabled) <=> (rd.calls[1].kind = "close")

-----------------------------------------------------------------------------
(* Order of evaluation *)

\* C17: a rule round evaluates its rules in non-decreasing order of
\* priority (no priority counts as 0); the tasks of all of them are in the
\* one accumulator of the round, in the order of evaluation; nothing is
\* resolved or called before the last rule is processed, and the one
\* execute() resolves all the tasks together, with at most one call for an
\* extension.
C17_AscendingPriorityOneExecute ==
    RuleRound =>
        /\ \A i, j \in DOMAIN rd.order :
               i < j => PriorityOf(RuleAt(rd.order[i]))
                            <= PriorityOf(RuleAt(rd.order[j]))
        /\ \A a, b \in DOMAIN rd.tasks :
               a < b =>
                   \E i, j \in DOMAIN rd.order :
                       /\ i <= j
                       /\ rd.order[i] = rd.tasks[a].rule
                       /\ rd.order[j] = rd.tasks[b].rule
        /\ \A i \in DOMAIN rd.order :
               TasksOf(rd.order[i]) = Evaluated(RuleAt(rd.order[i]))
        /\ rd.pc = "executing" => rd.winners = <<>> /\ rd.calls = <<>>
        /\ rd.pc = "done" =>
               /\ DOMAIN rd.winners = Touched(rd.tasks)
               /\ \A e \in Touched(rd.tasks) : CallsFor(rd, e) <= 1

\* a completed round that evaluated the rule of priority 5 before the rule
\* of priority 10 that stands before it in the list, both with tasks
C17_Witness ==
    /\ RuleRoundDone
    /\ Len(rd.order) = 2
    /\ rd.order[1] = rules[2]
    /\ rd.order[2] = rules[1]
    /\ PriorityOf(RuleAt(rd.order[1])) < PriorityOf(RuleAt(rd.order[2]))
    /\ TasksOf(rd.order[1]) # <<>>
    /\ TasksOf(rd.order[2]) # <<>>
    /\ rd.calls # <<>>

-----------------------------------------------------------------------------
(* Overlapping rounds                                                      *)
(*                                                                         *)
(* processRule is asynchronous: it awaits process() for every rule and     *)
(* then execute().  A second run can start while the first is anywhere in  *)
(* between.  Every run works on the ExecuteTaskHandler it created.         *)

\* the runs of processRule in one behaviour
MaxRounds == 2

RoundRuleLists == {<<OpenUrl, PeriodClose>>, <<CloseOnly10, SceneOpen5>>}

\* an ExecuteTaskHandler: the tasks appended, each with the run that
\* appended it; the tasks its execute() took; how often execute() began;
\* the state-change calls its execute() issued and which of them the
\* browser has answered
NewHandler == [tasks |-> <<>>, state |-> "collecting", taken |-> <<>>,
               executes |-> 0, calls |-> <<>>, answered |-> {}]

\* one ExecuteTaskHandler kept for all the runs
sharedHandler(hs) == 1

\* new ExecuteTaskHandler(): an instance no other run has
freshHandler(hs) == Len(hs) + 1

InitRounds ==
    /\ enabled \in {S \cup {SelfId} : S \in SUBSET (Exts \ {SelfId})}
    /\ rules \in {[i \in DOMAIN l |-> RuleRef(l[i])] : l \in RoundRuleLists}
    /\ groups = GroupsCfg
    /\ tab = UrlExample
    /\ tabs = {UrlExample}
    /\ scene = "s1"
    /\ now = 0
    /\ indexer = rebuildIndex(RuleConfigs(rules))
    /\ rd = IdleRound
    /\ AuxIdle

\* an event whose debounce time has passed: a run of processRule starts on
\* the context of now, sorts its rules and creates its handler
StartRound ==
    /\ Len(rounds) < MaxRounds
    /\ \E ts \in TabStates, s \in Scenes :
          LET ctx == Ctx(ts.tab, ts.tabs)
              rs == RuleConfigs(rules)
              sorted == sortedRules(rulesToProcess(rs, indexer, s, ctx))
              h == freshHandler(handlers)
          IN  /\ tab' = ts.tab
              /\ tabs' = ts.tabs
              /\ scene' = s
              /\ handlers' = IF h \in DOMAIN handlers THEN handlers
                             ELSE Append(handlers, NewHandler)
              /\ rounds' = Append(rounds,
                                  [pc |-> "collecting", sc |-> s, ctx |-> ctx,
                                   todo |-> [i \in DOMAIN sorted |->
                                                sorted[i].id],
                                   handler |-> h])
    /\ UNCHANGED <<enabled, rules, groups, now, indexer, rd>>
    /\ UNCHANGED notRounds

\* await process(rule, ...): the tasks of the next rule go to the handler
\* of the run
ProcessOne(n) ==
    /\ rounds[n].pc = "collecting"
    /\ rounds[n].todo # <<>>
    /\ LET rule == RuleAt(Head(rounds[n].todo))
           new == process(rule, rounds[n].sc, groups, rounds[n].ctx, now)
           h == rounds[n].handler
       IN  /\ handlers' =
                  [handlers EXCEPT
                      ![h].tasks = @ \o [i \in DOMAIN new |->
                                            [round |-> n, task |-> new[i]]]]
           /\ rounds' = [rounds EXCEPT ![n].todo = Tail(@)]
    /\ UNCHANGED <<enabled, rules, groups, tab, tabs, scene, now, indexer, rd>>
    /\ UNCHANGED notRounds

\* execute() begins: it takes the tasks the handler holds, resolves the
\* conflicts and issues its batch of calls, decided on from the browser
\* state of now
BeginExecute(n) ==
    /\ rounds[n].pc = "collecting"
    /\ rounds[n].todo = <<>>
    /\ LET h == rounds[n].handler
           tasks == [i \in DOMAIN handlers[h].tasks |->
                        handlers[h].tasks[i].task]
           winners == Resolve(tasks)
       IN  handlers' = [handlers EXCEPT
                           ![h].state = "executing",
                           ![h].taken = handlers[h].tasks,
                           ![h].executes = @ + 1,
                           ![h].calls = Calls(tasks, winners, DOMAIN winners,
                                              enabled)]
    /\ rounds' = [rounds EXCEPT ![n].pc = "executing"]
    /\ UNCHANGED <<enabled, rules, groups, tab, tabs, scene, now, indexer, rd>>
    /\ UNCHANGED notRounds

\* the browser carries out a call that is on its way and answers it
AnswerCall(n) ==
    /\ rounds[n].pc = "executing"
    /\ LET h == rounds[n].handler
       IN  \E k \in DOMAIN handlers[h].calls \ handlers[h].answered :
              /\ enabled' = Applied(<<handlers[h].calls[k]>>, enabled)
              /\ handlers' = [handlers EXCEPT ![h].answered = @ \cup {k}]
    /\ UNCHANGED <<rules, groups, tab, tabs, scene, now, indexer, rd, rounds>>
    /\ UNCHANGED notRounds

\* a processRule that does not wait for its execute()
executeNotAwaited(h) == TRUE

\* await executeTaskHandler.execute(): every call of the batch is answered
executeAwaited(h) == h.answered = DOMAIN h.calls

\* execute() ends and processRule, which awaited it, reports the round
\* complete and returns
EndExecute(n) ==
    /\ rounds[n].pc = "executing"
    /\ LET h == rounds[n].handler
       IN  /\ executeAwaited(handlers[h])
           /\ handlers' = [handlers EXCEPT ![h].state = "done"]
    /\ rounds' = [rounds EXCEPT ![n].pc = "done"]
    /\ UNCHANGED <<enabled, rules, groups, tab, tabs, scene, now, indexer, rd>>
    /\ UNCHANGED notRounds

RunRound == \E n \in DOMAIN rounds :
                \/ ProcessOne(n)
                \/ BeginExecute(n)
                \/ AnswerCall(n)
                \/ EndExecute(n)

NextRounds ==
    \/ StartRound
    \/ RunRound

SpecRounds == InitRounds /\ [][NextRounds]_vars

\* C18: the runs have handlers of their own; every task a handler holds,
\* and every task its execute() took, was appended by the run that owns
\* the handler; a handler whose execute() has begun holds exactly the
\* tasks that execute() took (nothing was appended afterwards); execute()
\* has begun at most once on a handler; and a handler is where its run is:
\* collecting, executing or done.
C18_OwnAccumulatorPerRound ==
    /\ \A n, m \in DOMAIN rounds :
           rounds[n].handler = rounds[m].handler => n = m
    /\ \A n \in DOMAIN rounds :
           LET h == handlers[rounds[n].handler]
           IN  /\ \A k \in DOMAIN h.tasks : h.tasks[k].round = n
               /\ \A k \in DOMAIN h.taken : h.taken[k].round = n
               /\ h.state # "collecting" => h.tasks = h.taken
               /\ h.executes <= 1
               /\ h.executes = IF h.state = "collecting" THEN 0 ELSE 1
               /\ h.state = rounds[n].pc

\* the second run appended a task to its handler while the execute() of
\* the first run, which had taken tasks, was still going on
C18_Witness ==
    /\ Len(rounds) = 2
    /\ rounds[1].pc = "executing"
    /\ handlers[rounds[1].handler].taken # <<>>
    /\ rounds[2].pc = "collecting"
    /\ handlers[rounds[2].handler].tasks # <<>>

-----------------------------------------------------------------------------
(* RuleHandler: the debounce of the events                                 *)
(*                                                                         *)
(* Every event calls the debounced do(): the call arms the timer, or arms  *)
(* it again when it is armed already; when the timer has run for the       *)
(* window without a new event, one round starts on the context of then.    *)
(* Time is counted in steps of TickMs since the last event.                *)

\* the events of one behaviour
MaxEvents == 3

\* the coalescing window of the debounce, in milliseconds
DebounceMs == 20

\* the step of the clock, in milliseconds
TickMs == 10

\* an event when nothing coalesces: every call of do() starts a round at
\* once
eventWithoutDebounce(d, snapshot) ==
    [d EXCEPT !.events = @ + 1,
              !.since = 0,
              !.bursts = IF d.events > 0 /\ d.since < DebounceMs
                         THEN [@ EXCEPT ![Len(@)] = snapshot]
                         ELSE Append(@, snapshot),
              !.started = Append(@, snapshot)]

\* the debounced do(): the event is counted to the burst of the event
\* before it when it comes within the window, the timer is armed (again)
eventDebounced(d, snapshot) ==
    [d EXCEPT !.events = @ + 1,
              !.since = 0,
              !.pending = TRUE,
              !.bursts = IF d.events > 0 /\ d.since < DebounceMs
                         THEN [@ EXCEPT ![Len(@)] = snapshot]
                         ELSE Append(@, snapshot)]

\* what a round would read if it started now
Snapshot(n, sc, t, ts, on) ==
    [event |-> n, sc |-> sc, ctx |-> Ctx(t, ts), enabled |-> on]

InitDebounce ==
    /\ enabled \in {{SelfId}, {SelfId, "e1"}}
    /\ rules = <<>>
    /\ groups = GroupsCfg
    /\ tab = UrlExample
    /\ tabs = {UrlExample}
    /\ scene = "s1"
    /\ now = 0
    /\ indexer = rebuildIndex(<<>>)
    /\ rd = IdleRound
    /\ AuxIdle

\* the active tab changes
TabEvent ==
    /\ db.events < MaxEvents
    /\ \E ts \in TabStates :
          /\ <<ts.tab, ts.tabs>> # <<tab, tabs>>
          /\ tab' = ts.tab
          /\ tabs' = ts.tabs
          /\ db' = eventDebounced(db, Snapshot(db.events + 1, scene, ts.tab,
                                                ts.tabs, enabled))
    /\ UNCHANGED <<enabled, rules, groups, scene, now, indexer, rd>>
    /\ UNCHANGED notDb

\* the scene is switched
SceneEvent ==
    /\ db.events < MaxEvents
    /\ \E s \in Scenes \ {scene} :
          /\ scene' = s
          /\ db' = eventDebounced(db, Snapshot(db.events + 1, s, tab, tabs,
                                                enabled))
    /\ UNCHANGED <<enabled, rules, groups, tab, tabs, now, indexer, rd>>
    /\ UNCHANGED notDb

\* an extension is enabled or disabled
ExtensionEvent ==
    /\ db.events < MaxEvents
    /\ LET on == IF "e1" \in enabled THEN enabled \ {"e1"}
                 ELSE enabled \cup {"e1"}
       IN  /\ enabled' = on
           /\ db' = eventDebounced(db, Snapshot(db.events + 1, scene, tab,
                                                 tabs, on))
    /\ UNCHANGED <<rules, groups, tab, tabs, scene, now, indexer, rd>>
    /\ UNCHANGED notDb

\* the periodic timer of the period triggers ticks
TimerEvent ==
    /\ db.events < MaxEvents
    /\ db' = eventDebounced(db, Snapshot(db.events + 1, scene, tab, tabs,
                                          enabled))
    /\ UNCHANGED <<enabled, rules, groups, tab, tabs, scene, now, indexer, rd>>
    /\ UNCHANGED notDb

\* time passes without an event; when the armed timer has run for the
\* window, do() runs: a round starts on the context of this moment
Elapse ==
    /\ db.since <= DebounceMs
    /\ db.events > 0
    /\ LET since == db.since + TickMs
           fires == db.pending /\ since >= DebounceMs
       IN  /\ db' = [db EXCEPT
                        !.since = since,
                        !.pending = IF fires THEN FALSE ELSE @,
                        !.started =
                            IF fires
                            THEN Append(@, Snapshot(db.events, scene, tab,
                                                    tabs, enabled))
                            ELSE @]
           /\ IF fires
              THEN ScheduleRound(scene, Ctx(tab, tabs), FALSE)
              ELSE rd' = rd
    /\ UNCHANGED <<enabled, rules, groups, tab, tabs, scene, now, indexer>>
    /\ UNCHANGED notDb

NextDebounce ==
    \/ TabEvent
    \/ SceneEvent
    \/ ExtensionEvent
    \/ TimerEvent
    \/ Elapse

SpecDebounce == InitDebounce /\ [][NextDebounce]_vars

\* C19: the events that follow one another within the window form a
\* burst.  Every burst that has ended has exactly one round, the burst
\* that is still going on has none yet, the round of a burst started on
\* the context that the last event of the burst left behind, and the round
\* at the head of the rule handler is that round.
C19_OneRoundPerBurst ==
    /\ Len(db.started) = IF db.pending THEN Len(db.bursts) - 1
                         ELSE Len(db.bursts)
    /\ \A k \in DOMAIN db.started : db.started[k] = db.bursts[k]
    /\ \A k \in DOMAIN db.started : \A j \in DOMAIN db.started :
           k < j => db.started[k].event < db.started[j].event
    /\ (db.started # <<>>) =>
           /\ rd.pc = "scheduled"
           /\ rd.ctx = db.started[Len(db.started)].ctx
           /\ rd.sc = db.started[Len(db.started)].sc
    /\ (~db.pending /\ db.events > 0) =>
           db.started[Len(db.started)].event = db.events

\* two bursts, the first of two events, each with its one round
C19_Witness ==
    /\ db.events = 3
    /\ ~db.pending
    /\ Len(db.started) = 2
    /\ db.started[1].event = 2
    /\ db.started[2].event = 3
    /\ db.started[1].ctx # db.started[2].ctx

-----------------------------------------------------------------------------
(* The match evaluator on its own: isMatch over rules with up to           *)
(* MaxTriggers triggers of every kind, under both relationships, in every  *)
(* context                                                                 *)

\* the triggers of one rule
MaxTriggers == 2

MatchTriggers ==
    {UrlT(<<PatExampleCom>>), UrlT(<<PatOther, PatFiller>>),
     SceneT(<<"s1">>), OsT(<<HostOs>>), OsT(<<"win">>),
     PeriodT(<< <<0, 0>> >>)}

MatchTriggerLists ==
    UNION {[1..n -> MatchTriggers] : n \in 0..MaxTriggers}

MatchContexts ==
    TabStates
    \cup {[tab |-> UrlOther, tabs |-> {UrlOther}],
          [tab |-> UrlExample, tabs |-> {UrlExample, UrlOther}]}

\* a rule with these triggers and this relationship
MatchRule(rel, trigs) ==
    Rule("m", TRUE, <<>>, rel, trigs, <<>>, <<"e1">>,
         Simple("openWhenMatched", FALSE, FALSE))

\* the arguments of a call of isMatch, not yet evaluated
MatchCall(rel, trigs, sc, ts, time) ==
    [rule |-> MatchRule(rel, trigs), sc |-> sc, ctx |-> Ctx(ts.tab, ts.tabs),
     time |-> time, result |-> <<>>]

InitMatch ==
    /\ enabled = {SelfId}
    /\ rules = <<>>
    /\ groups = GroupsCfg
    /\ tab = NoUrl
    /\ tabs = {}
    /\ scene = "s1"
    /\ now = 0
    /\ indexer = rebuildIndex(<<>>)
    /\ rd = IdleRound
    /\ mx = <<>>
    /\ ao = {}
    /\ faults = NoFaults
    /\ rounds = <<>>
    /\ handlers = <<>>
    /\ db = NoEvents
    /\ StoresIdle
    /\ mt \in {<<MatchCall(rel, trigs, sc, ts, time)>> :
                  rel \in {"and", "or"}, trigs \in MatchTriggerLists,
                  sc \in Scenes, ts \in MatchContexts, time \in Ticks}

\* ctx.matchResult = await isMatch(scene, rule, ctx)
EvaluateMatch ==
    /\ mt[1].result = <<>>
    /\ mt' = <<[mt[1] EXCEPT
                   !.result = <<isMatch(mt[1].sc, mt[1].rule, mt[1].ctx,
                                        mt[1].time)>>]>>
    /\ UNCHANGED <<enabled, rules, groups, tab, tabs, scene, now, indexer, rd>>
    /\ UNCHANGED notMt

\* the same rule is evaluated again in the next round, in another context
NextMatchContext ==
    /\ mt[1].result # <<>>
    /\ \E sc \in Scenes, ts \in MatchContexts, time \in Ticks :
          /\ <<sc, Ctx(ts.tab, ts.tabs), time>>
                 # <<mt[1].sc, mt[1].ctx, mt[1].time>>
          /\ mt' = <<[mt[1] EXCEPT !.sc = sc,
                                   !.ctx = Ctx(ts.tab, ts.tabs),
                                   !.time = time,
                                   !.result = <<>>]>>
    /\ UNCHANGED <<enabled, rules, groups, tab, tabs, scene, now, indexer, rd>>
    /\ UNCHANGED notMt

NextMatch ==
    \/ EvaluateMatch
    \/ NextMatchContext

SpecMatch == InitMatch /\ [][NextMatch]_vars

\* C20: every match result has isCurrentMatch => isAnyMatch, and the
\* result of a rule without triggers is true for both.
C20_CurrentImpliesAny ==
    \A k \in DOMAIN mt :
        mt[k].result # <<>> =>
            LET res == mt[k].result[1]
            IN  /\ res.isCurrentMatch => res.isAnyMatch
                /\ mt[k].rule.match.triggers = <<>> =>
                       res.isCurrentMatch /\ res.isAnyMatch

\* an OR rule of a URL and a scene trigger that matches on the current
\* tab, hence on any
C20_Witness ==
    /\ mt # <<>>
    /\ mt[1].result # <<>>
    /\ mt[1].rule.match.relationship = "or"
    /\ Len(mt[1].rule.match.triggers) = 2
    /\ mt[1].rule.match.triggers[1].trigger = "urlTrigger"
    /\ mt[1].rule.match.triggers[2].trigger = "sceneTrigger"
    /\ mt[1].sc = "s2"
    /\ mt[1].result[1].isCurrentMatch
    /\ mt[1].result[1].isAnyMatch

\* an AND rule of two triggers that matches on a background tab only
C20_WitnessAnyOnly ==
    /\ mt # <<>>
    /\ mt[1].result # <<>>
    /\ mt[1].rule.match.relationship = "and"
    /\ Len(mt[1].rule.match.triggers) = 2
    /\ ~mt[1].result[1].isCurrentMatch
    /\ mt[1].result[1].isAnyMatch

-----------------------------------------------------------------------------
(* The mutex listener beside a round                                       *)
(*                                                                         *)
(* The listener of chrome.management.onEnabled and the execute() of a      *)
(* round both talk to the browser; their steps interleave freely.          *)

RaceRuleLists == {<<PeriodClose>>, <<CloseUrl>>}

InitRace ==
    /\ enabled \in {S \cup {SelfId} : S \in SUBSET (Exts \ {SelfId})}
    /\ rules \in {[i \in DOMAIN l |-> RuleRef(l[i])] : l \in RaceRuleLists}
    /\ groups = GroupsCfg
    /\ tab = UrlExample
    /\ tabs = {UrlExample}
    /\ scene = "s1"
    /\ now = 0
    /\ indexer = rebuildIndex(RuleConfigs(rules))
    /\ rd = IdleRound
    /\ AuxIdle

\* the one round the listener runs beside
StartRaceRound == rounds = <<>> /\ StartRound

NextRace ==
    \/ EnableExtension
    \/ handleExtensionEnabled
    \/ StartRaceRound
    \/ RunRound

SpecRace == InitRace /\ [][NextRace]_vars

\* the calls of the rounds that ask to disable e: planned, and answered
RoundCloses(e) ==
    {<<n, k>> \in (DOMAIN rounds) \X (1 .. Cardinality(Installed)) :
        /\ k \in DOMAIN handlers[rounds[n].handler].calls
        /\ handlers[rounds[n].handler].calls[k] = [id |-> e, kind |-> "close"]}

RoundClosed(e) ==
    \E c \in RoundCloses(e) : c[2] \in handlers[rounds[c[1]].handler].answered

\* the runs of the listener that disabled e
MutexClosed(e) == \E i \in DOMAIN mx : \E k \in DOMAIN mx[i].calls :
                     mx[i].calls[k] = e

\* both sides are through
RaceOver ==
    /\ Quiescent
    /\ \A n \in DOMAIN rounds : rounds[n].pc = "done"

\* e was handed to the browser for a change by the step: the listener is
\* at its setEnabled(e, false), or a call of a round for e is on its way,
\* or e is just being enabled from outside
Intended(e) ==
    \/ \E i \in DOMAIN mx : mx[i].pc = "set" /\ Head(mx[i].todo) = e
    \/ \E n \in DOMAIN rounds :
          LET h == handlers[rounds[n].handler]
          IN  \E k \in DOMAIN h.calls \ h.answered : h.calls[k].id = e
    \/ /\ Len(mx') = Len(mx) + 1
       /\ mx'[Len(mx')].id = e

\* C21: when the listener and the execute() of a round both disable an
\* extension, in either order or interleaved, the extension is disabled in
\* the end (unless it was enabled again from outside); neither side gives
\* up: a run of the listener that is through has looked at every extension
\* it set out to look at, and a round that is through has had every call
\* answered; and a step changes no extension but one that the listener or
\* the round was about to change.
C21_DoubleDisableBenign ==
    [][/\ \A e \in Installed :
             (e \in enabled) # (e \in enabled') => Intended(e)
       /\ \A i \in DOMAIN mx :
             (mx[i].pc = "set" /\ mx'[i] # mx[i]) =>
                 /\ Head(mx[i].todo) \notin enabled'
                 /\ mx'[i].calls = Append(mx[i].calls, Head(mx[i].todo))
                 /\ mx'[i].pc = NextPc(mx[i].todo)
       /\ RaceOver' =>
             /\ \A i \in DOMAIN mx' :
                   Len(mx'[i].seen) =
                       Len(visits(mutexGroups(mx'[i].gs), mx'[i].id, SelfId))
             /\ \A n \in DOMAIN rounds' :
                   LET h == handlers'[rounds'[n].handler]
                   IN  h.answered = DOMAIN h.calls
             /\ \A e \in Installed :
                   (/\ MutexClosed(e)'
                    /\ RoundClosed(e)'
                    /\ \A i \in DOMAIN mx' : mx'[i].id # e)
                   => e \notin enabled']_vars

\* the listener and a round have both disabled e1, and both are through
C21_Witness ==
    /\ RaceOver
    /\ MutexClosed("e1")
    /\ RoundClosed("e1")
    /\ "e1" \notin enabled

-----------------------------------------------------------------------------
(* The level of a task                                                     *)

\* C22: every task of a rule round carries the priority of the rule that
\* appended it as its level (0 when the rule has none), whatever the mode
\* of the action and whichever branch appended it.
C22_TaskLevelIsRulePriority ==
    rd.kind = "rule" =>
        \A k \in DOMAIN rd.tasks :
            rd.tasks[k].level = PriorityOf(RuleAt(rd.tasks[k].rule))

-----------------------------------------------------------------------------
(* ExtensionService: the cached list of extensions                         *)
(*                                                                         *)
(* getAllExtensions answers from the cache while it is younger than        *)
(* CACHE_TTL; otherwise it awaits management.getAll() and stores the       *)
(* answer.  The listeners of onEnabled, onDisabled, onInstalled and        *)
(* onUninstalled empty the cache.  A list carries the number of            *)
(* notifications that had been delivered when the browser put it together. *)

\* the calls of getAllExtensions (of SyncStorageCache.getAll) in one
\* behaviour
MaxCalls == 2

\* the notifications of one behaviour
MaxChanges == 2

CACHE_TTL == 5000

\* a call: now is Date.now() at its start, after the notifications
\* delivered before its start, fetched what the browser answered, result
\* what the call returned
NewCall(time, after) ==
    [pc |-> "await", now |-> time, after |-> after, fetched |-> <<>>,
     result |-> <<>>]

invalidateCache(c) == [c EXCEPT !.cache = <<>>, !.cacheTimestamp = 0]

\* the test at the head of getAllExtensions
cacheFresh(c, time) ==
    /\ c.cache # <<>>
    /\ c.cacheTimestamp > 0
    /\ time - c.cacheTimestamp < CACHE_TTL

InitExtCache ==
    /\ enabled \in {S \cup {SelfId} : S \in SUBSET (Exts \ {SelfId})}
    /\ rules = <<>>
    /\ groups = GroupsCfg
    /\ tab = NoUrl
    /\ tabs = {}
    /\ scene = "s1"
    /\ now = 0
    /\ indexer = rebuildIndex(<<>>)
    /\ rd = IdleRound
    /\ AuxIdle

\* an extension is enabled or disabled; the browser notifies the service
ExtensionChanged ==
    /\ extSvc.changes < MaxChanges
    /\ \E e \in Exts \ {SelfId} :
          enabled' = IF e \in enabled THEN enabled \ {e} ELSE enabled \cup {e}
    /\ extSvc' = [invalidateCache(extSvc) EXCEPT !.changes = @ + 1]
    /\ UNCHANGED <<rules, groups, tab, tabs, scene, now, indexer, rd>>
    /\ UNCHANGED notExtSvc

\* getAllExtensions up to its return from the cache or its await
getAllExtensions ==
    /\ Len(extSvc.calls) < MaxCalls
    /\ LET call == NewCall(extSvc.clock, extSvc.changes)
       IN  extSvc' =
             [extSvc EXCEPT
                 !.calls = Append(@,
                     IF cacheFresh(extSvc, extSvc.clock)
                     THEN [call EXCEPT !.pc = "done",
                                       !.result = extSvc.cache]
                     ELSE call)]
    /\ UNCHANGED <<enabled, rules, groups, tab, tabs, scene, now, indexer, rd>>
    /\ UNCHANGED notExtSvc

\* chrome.management.getAll(): the browser puts the list together
ManagementGetAll(i) ==
    /\ extSvc.calls[i].pc = "await"
    /\ extSvc' =
         [extSvc EXCEPT
             !.calls[i].fetched = <<[on |-> enabled,
                                     asof |-> extSvc.changes]>>,
             !.calls[i].pc = "resume"]
    /\ UNCHANGED <<enabled, rules, groups, tab, tabs, scene, now, indexer, rd>>
    /\ UNCHANGED notExtSvc

\* getAllExtensions after its await: the answer goes to the cache with the
\* time of the call's start
GetAllResume(i) ==
    /\ extSvc.calls[i].pc = "resume"
    /\ extSvc' =
         [extSvc EXCEPT
             !.cache = extSvc.calls[i].fetched,
             !.cacheTimestamp = extSvc.calls[i].now,
             !.calls[i].result = extSvc.calls[i].fetched,
             !.calls[i].pc = "done"]
    /\ UNCHANGED <<enabled, rules, groups, tab, tabs, scene, now, indexer, rd>>
    /\ UNCHANGED notExtSvc

GetAllRun == \E i \in DOMAIN extSvc.calls :
                 ManagementGetAll(i) \/ GetAllResume(i)

\* time passes
ExtClock ==
    /\ extSvc.clock < 2 * CACHE_TTL
    /\ extSvc' = [extSvc EXCEPT !.clock = @ + CACHE_TTL \div 2]
    /\ UNCHANGED <<enabled, rules, groups, tab, tabs, scene, now, indexer, rd>>
    /\ UNCHANGED notExtSvc

NextExtCache ==
    \/ ExtensionChanged
    \/ getAllExtensions
    \/ GetAllRun
    \/ ExtClock

SpecExtCache == InitExtCache /\ [][NextExtCache]_vars

\* C23: a call of getAllExtensions that started after a notification
\* returns a list the browser put together after that notification.
C23_NoListFromBeforeNotification ==
    \A i \in DOMAIN extSvc.calls :
        extSvc.calls[i].pc = "done" =>
            extSvc.calls[i].result[1].asof >= extSvc.calls[i].after

-----------------------------------------------------------------------------
(* SyncStorageCache: the cached options of the sync area                   *)
(*                                                                         *)
(* getAll answers from the cache unless it is empty or older than its      *)
(* CACHE_TTL; otherwise it awaits refreshCache().  The listener of         *)
(* chrome.storage.onChanged empties the cache.  The options carry the      *)
(* number of changes that had been made when the storage was read.         *)

SYNC_CACHE_TTL == 1000

\* the test at the head of getAll: refresh or not
cacheStale(c, time) ==
    \/ c.cache = <<>>
    \/ c.cacheTimestamp = 0
    \/ time - c.cacheTimestamp > SYNC_CACHE_TTL

\* after initialize(): the first options are cached, the listener is set
InitSyncCache ==
    /\ enabled = {SelfId}
    /\ rules = <<>>
    /\ groups = GroupsCfg
    /\ tab = NoUrl
    /\ tabs = {}
    /\ scene = "s1"
    /\ now = 0
    /\ indexer = rebuildIndex(<<>>)
    /\ rd = IdleRound
    /\ mx = <<>> /\ ao = {} /\ faults = NoFaults /\ rounds = <<>>
    /\ handlers = <<>> /\ db = NoEvents /\ mt = <<>>
    /\ extSvc = NoCache
    /\ domainStore = <<>>
    /\ overlaps = {}
    /\ syncCache = [NoCache EXCEPT !.cache = <<[asof |-> 0]>>,
                                   !.cacheTimestamp = 1]

\* the sync area changes; chrome.storage.onChanged empties the cache
StorageChanged ==
    /\ syncCache.changes < MaxChanges
    /\ syncCache' = [syncCache EXCEPT !.cache = <<>>,
                                      !.cacheTimestamp = 0,
                                      !.changes = @ + 1]
    /\ UNCHANGED <<enabled, rules, groups, tab, tabs, scene, now, indexer, rd>>
    /\ UNCHANGED notSyncCache

\* getAll up to its return of the cached options or its await
SyncGetAll ==
    /\ Len(syncCache.calls) < MaxCalls
    /\ LET call == NewCall(syncCache.clock, syncCache.changes)
       IN  syncCache' =
             [syncCache EXCEPT
                 !.calls = Append(@,
                     IF cacheStale(syncCache, syncCache.clock)
                     THEN call
                     ELSE [call EXCEPT !.pc = "done",
                                       !.result = syncCache.cache])]
    /\ UNCHANGED <<enabled, rules, groups, tab, tabs, scene, now, indexer, rd>>
    /\ UNCHANGED notSyncCache

\* SyncOptionsStorage.getAll(): the storage is read
StorageRead(i) ==
    /\ syncCache.calls[i].pc = "await"
    /\ syncCache' =
         [syncCache EXCEPT
             !.calls[i].fetched = <<[asof |-> syncCache.changes]>>,
             !.calls[i].pc = "resume"]
    /\ UNCHANGED <<enabled, rules, groups, tab, tabs, scene, now, indexer, rd>>
    /\ UNCHANGED notSyncCache

\* refreshCache after its await, and the return of getAll: the options go
\* to the cache with the time of now, and the cache is what getAll returns
refreshCache(i) ==
    /\ syncCache.calls[i].pc = "resume"
    /\ syncCache' =
         [syncCache EXCEPT
             !.cache = syncCache.calls[i].fetched,
             !.cacheTimestamp = syncCache.clock,
             !.calls[i].result = syncCache.calls[i].fetched,
             !.calls[i].pc = "done"]
    /\ UNCHANGED <<enabled, rules, groups, tab, tabs, scene, now, indexer, rd>>
    /\ UNCHANGED notSyncCache

SyncGetAllRun == \E i \in DOMAIN syncCache.calls :
                     StorageRead(i) \/ refreshCache(i)

\* time passes
SyncClock ==
    /\ syncCache.clock < 3 * SYNC_CACHE_TTL
    /\ syncCache' = [syncCache EXCEPT !.clock = @ + SYNC_CACHE_TTL \div 2]
    /\ UNCHANGED <<enabled, rules, groups, tab, tabs, scene, now, indexer, rd>>
    /\ UNCHANGED notSyncCache

NextSyncCache ==
    \/ StorageChanged
    \/ SyncGetAll
    \/ SyncGetAllRun
    \/ SyncClock

SpecSyncCache == InitSyncCache /\ [][NextSyncCache]_vars

\* C24: a call of SyncStorageCache.getAll that started after a change
\* notification of the sync area returns options read after that change.
C24_NoOptionsFromBeforeChange ==
    \A i \in DOMAIN syncCache.calls :
        syncCache.calls[i].pc = "done" =>
            syncCache.calls[i].result[1].asof >= syncCache.calls[i].after

-----------------------------------------------------------------------------
(* The end of a round                                                      *)

\* the calls of run n that are on their way to the browser
CallsInFlight(n) ==
    LET h == handlers[rounds[n].handler]
    IN  IF h.state = "collecting" THEN {} ELSE DOMAIN h.calls \ h.answered

-----------------------------------------------------------------------------
(* Failing calls to the browser and the storage                            *)
(*                                                                         *)
(* processRule, enableAlwaysOnExtensions and the onEnabled listener of     *)
(* MutexGroupHandler when calls to the host fail.  The failing calls of a  *)
(* behaviour are drawn at its start.                                       *)

HostRuleLists == {<<PeriodClose, CloseUrl>>, <<OpenUrl>> \o Filler}

InitHost ==
    /\ enabled \in {S \cup {SelfId} : S \in SUBSET (Exts \ {SelfId})}
    /\ rules \in {[i \in DOMAIN l |-> RuleRef(l[i])] : l \in HostRuleLists}
    /\ groups = GroupsCfg
    /\ tab = UrlExample
    /\ tabs = {UrlExample}
    /\ scene = "s1"
    /\ now = 0
    /\ indexer = rebuildIndex(RuleConfigs(rules))
    /\ rd = IdleRound
    /\ mx = <<>>
    /\ ao = {}
    /\ rounds = <<>>
    /\ handlers = <<>>
    /\ db = NoEvents
    /\ mt = <<>>
    /\ StoresIdle
    /\ faults \in [host : SUBSET HostCalls, throwing : {{}},
                   failing : {{}, {"e1"}, {"e1", "e2"}}]

NextHost ==
    \/ OnTabChanged
    \/ processRule
    \/ RoundExecute
    \/ enableAlwaysOnExtensions
    \/ EnableExtension
    \/ handleExtensionEnabled

SpecHost == InitHost /\ [][NextHost]_vars

\* C26: no run of processRule, of enableAlwaysOnExtensions or of the
\* onEnabled listener ends with an error for its caller, whichever of
\* management.get, setEnabled, getSelf, the read of the groups and
\* getPlatformInfo fail: a round whose rules are processed goes on to
\* execute() and completes; an enforcement pass that cannot read the
\* groups, its own id or an extension completes without a task; a run of
\* the listener that cannot read its own id or the groups completes without
\* a call, and one that cannot read or disable an extension goes on to the
\* next and leaves the browser as it was for that extension.
C26_NoErrorToCaller ==
    /\ rd.pc # "threw"
    /\ \A i \in DOMAIN mx : mx[i].pc # "threw"
    /\ (rd.kind = "alwaysOn" /\ faults.host \cap {"getGroups", "getSelf", "get"} # {})
           => rd.pc = "done" /\ rd.tasks = <<>>
    /\ \A i \in DOMAIN mx :
           /\ (mx[i].pc # "start" /\ faults.host \cap {"getGroups", "getSelf"} # {})
                  => mx[i].pc = "done" /\ mx[i].calls = <<>> /\ mx[i].seen = <<>>
           /\ Fails("get") => mx[i].calls = <<>>

\* every call to the host fails; a rule round that went through the index
\* has completed all the same, and so has a run of the listener
C26_Witness ==
    /\ faults.host = HostCalls
    /\ faults.failing # {}
    /\ rd.kind = "rule"
    /\ rd.pc = "done"
    /\ Len(rules) > IndexThreshold
    /\ \E i \in DOMAIN mx : mx[i].pc = "done" /\ mx[i].id # SelfId

\* the listener tried to disable an extension, the browser rejected the
\* call, and the run completed
C26_WitnessRejected ==
    \E i \in DOMAIN mx :
        /\ mx[i].pc = "done"
        /\ \E k \in DOMAIN mx[i].calls :
              mx[i].calls[k] \in faults.failing /\ mx[i].calls[k] \in enabled

-----------------------------------------------------------------------------
(* RuleIndexer: rebuilds                                                   *)

\* the longest list handed to rebuildIndex
MaxIndexed == 3

\* URL, scene and OS rules, a disabled scene rule, a rule without id
IndexedTemplates == {OpenUrl, SceneOpen5, Filler[1], Filler[2], NoId}

IndexedLists ==
    UNION {[1..n -> IndexedTemplates] : n \in 0..MaxIndexed}

InitIndex ==
    /\ enabled = {SelfId}
    /\ rules = <<>>
    /\ groups = GroupsCfg
    /\ tab = NoUrl
    /\ tabs = {}
    /\ scene = "s1"
    /\ now = 0
    /\ indexer = EmptyIndex
    /\ rd = IdleRound
    /\ AuxIdle

\* the rule list changes and the indexer is rebuilt from it
RebuildIndex ==
    /\ \E l \in IndexedLists :
          /\ rules' = [i \in DOMAIN l |-> RuleRef(l[i])]
          /\ indexer' = rebuildIndexOn(indexer, l)
    /\ UNCHANGED <<enabled, groups, tab, tabs, scene, now, rd>>
    /\ UNCHANGED aux

NextIndex == RebuildIndex

SpecIndex == InitIndex /\ [][NextIndex]_vars

\* the enabled rules with an id of the list the index was last built from
Indexable == {r \in SeqToSet(RuleConfigs(rules)) : r.enable /\ r.id # ""}

\* every id of the sequence is known to getRule as a rule of Indexable
AllIndexable(ids) ==
    \A k \in DOMAIN ids :
        /\ getRule(indexer, ids[k]) # <<>>
        /\ getRule(indexer, ids[k])[1] \in Indexable

\* C27: whatever lists rebuildIndex was called with before, every id that
\* getRulesForUrl, getRulesForScene or getRulesForOS returns is known to
\* getRule as an enabled rule with an id of the last list, and every such
\* rule is returned for every scene id its scene triggers list and for
\* every OS kind its OS triggers list.
C27_IndexReflectsLastRebuild ==
    /\ \A u \in {UrlExample, UrlOther} : AllIndexable(getRulesForUrl(indexer, u))
    /\ \A d \in DOMAIN indexer.domainIndex :
           AllIndexable(Lookup(indexer.domainIndex, d))
    /\ \A sc \in Scenes \cup {"s3"} : AllIndexable(getRulesForScene(indexer, sc))
    /\ \A os \in {HostOs, "win"} : AllIndexable(getRulesForOS(indexer, os))
    /\ \A r \in Indexable :
           \A k \in DOMAIN r.match.triggers :
               LET t == r.match.triggers[k]
               IN  /\ t.trigger = "sceneTrigger" =>
                          \A j \in DOMAIN t.sceneIds :
                              r.id \in SeqToSet(getRulesForScene(indexer,
                                                                 t.sceneIds[j]))
                   /\ t.trigger = "osTrigger" =>
                          \A j \in DOMAIN t.os :
                              r.id \in SeqToSet(getRulesForOS(indexer, t.os[j]))

\* the index was rebuilt from a rule without id, a disabled scene rule and
\* the OS rule: the lookups know the OS rule only
C27_Witness ==
    /\ RuleConfigs(rules) = <<NoId, Filler[2], Filler[1]>>
    /\ getRulesForOS(indexer, HostOs) = <<Filler[1].id>>
    /\ getRulesForScene(indexer, "s1") = <<>>
    /\ getRulesForScene(indexer, "s2") = <<>>

-----------------------------------------------------------------------------
(* DomainRuleOptions: the domain rules on their way to the rule store      *)
(*                                                                         *)
(* addOne and update mark the rule and set its priority from its           *)
(* overrideMode before they hand it to RuleConfigOptions, which appends    *)
(* (addOne) or replaces the rules of the same id (update).                 *)

\* the rules of the store
MaxStored == 3

\* what a caller can hand over: with or without id, any source, any
\* priority or none, any override mode or none
DomainRuleInputs ==
    [id : {"", "d1"}, source : {"", "user"}, priority : {<<>>, <<5>>, <<10>>},
     overrideMode : {"", "soft", "override"}, version : {0}]

\* a rule that keeps the priority its caller gave it
callerPriority(rule) == rule.priority

\* rule.priority = 10 for the override mode, 0 otherwise
domainPriority(rule) ==
    IF rule.overrideMode = "override" THEN <<10>> ELSE <<0>>

InitDomain ==
    /\ enabled = {SelfId}
    /\ rules = <<>>
    /\ groups = GroupsCfg
    /\ tab = NoUrl
    /\ tabs = {}
    /\ scene = "s1"
    /\ now = 0
    /\ indexer = rebuildIndex(<<>>)
    /\ rd = IdleRound
    /\ AuxIdle

\* DomainRuleOptions.addOne(rule); nanoid() gives an id no rule has
addOne ==
    /\ Len(domainStore) < MaxStored
    /\ \E rule \in DomainRuleInputs :
          domainStore' =
              Append(domainStore,
                     [rule EXCEPT !.id = IF rule.id = "" THEN "nanoid" ELSE @,
                                  !.source = "domainAuto",
                                  !.version = 2,
                                  !.priority = domainPriority(rule)])
    /\ UNCHANGED <<enabled, rules, groups, tab, tabs, scene, now, indexer, rd>>
    /\ UNCHANGED notDomainStore

\* DomainRuleOptions.update(rule)
update ==
    /\ \E rule \in DomainRuleInputs :
          LET marked == [rule EXCEPT !.source = "domainAuto",
                                     !.priority = domainPriority(rule)]
          IN  domainStore' =
                  [k \in DOMAIN domainStore |->
                      IF domainStore[k].id = marked.id THEN marked
                      ELSE domainStore[k]]
    /\ UNCHANGED <<enabled, rules, groups, tab, tabs, scene, now, indexer, rd>>
    /\ UNCHANGED notDomainStore

NextDomain ==
    \/ addOne
    \/ update

SpecDomain == InitDomain /\ [][NextDomain]_vars

\* C28: every rule that addOne and update have put into the store has the
\* source "domainAuto", and the priority 10 when its override mode is
\* "override" and 0 otherwise, whatever priority the caller handed over.
C28_DomainRulesNormalised ==
    \A k \in DOMAIN domainStore :
        /\ domainStore[k].source = "domainAuto"
        /\ domainStore[k].priority =
               IF domainStore[k].overrideMode = "override"
               THEN <<10>> ELSE <<0>>

\* the store holds an override rule, a soft rule and a rule without mode;
\* one of them came in through update
C28_Witness ==
    /\ Len(domainStore) = 3
    /\ {domainStore[k].overrideMode : k \in DOMAIN domainStore} =
           {"", "soft", "override"}
    /\ \E k \in DOMAIN domainStore : domainStore[k].version = 0

-----------------------------------------------------------------------------
(* Order among equal priorities *)

\* the place of a rule in the rule list handed to the round
PlaceInList(id) == CHOOSE k \in DOMAIN rules : rules[k] = id

\* C29: a rule round evaluates the rules of equal priority in the order in
\* which they stand in the rule list, whether or not it narrowed the list
\* through the index.
C29_ListOrderAmongEqualPriority ==
    RuleRound =>
        \A i, j \in DOMAIN rd.order :
            (/\ i < j
             /\ PriorityOf(RuleAt(rd.order[i])) = PriorityOf(RuleAt(rd.order[j])))
            => PlaceInList(rd.order[i]) < PlaceInList(rd.order[j])

-----------------------------------------------------------------------------
(* Two enable events in quick succession                                   *)
(*                                                                         *)
(* Nothing but the enable events and the listener changes the browser.     *)

InitEnables ==
    /\ enabled \in {S \cup {SelfId} : S \in SUBSET (MxExts \ {SelfId})}
    /\ rules = <<>>
    /\ groups = GroupsCfg
    /\ tab = NoUrl
    /\ tabs = {}
    /\ scene = "s1"
    /\ now = 0
    /\ indexer = rebuildIndex(<<>>)
    /\ rd = IdleRound
    /\ AuxIdle

\* an enable event, with a note of the runs it arrives during
EnableDuring ==
    /\ onEnabled
    /\ overlaps' = overlaps \cup {<<i, Len(mx) + 1>> :
                                     i \in {k \in DOMAIN mx : mx[k].pc # "done"}}
    /\ UNCHANGED notEnables

NextEnables ==
    \/ EnableDuring
    \/ handleExtensionEnabled

SpecEnables == InitEnables /\ [][NextEnables]_vars

\* C30: when the enable event of a member of a mutex group arrives while
\* the run of the listener for another member of the group is in progress,
\* then at least one of the two is enabled once every run has completed.
C30_OneOfTwoStaysEnabled ==
    Quiescent =>
        \A i, j \in DOMAIN mx :
            (/\ <<i, j>> \in overlaps
             /\ mx[i].id # mx[j].id
             /\ mx[j].id \in MutexPeers(groups, mx[i].id))
            => mx[i].id \in enabled \/ mx[j].id \in enabled

-----------------------------------------------------------------------------
(* Custom mode on its own: one rule with a custom action, with every       *)
(* setting of the two gates and of the reload flags, processed and         *)
(* executed in every context                                               *)

GateTimes == {"match", "notMatch", "none"}

GateScopes == {"currentMatch", "anyMatch", "currentNotMatch", "allNotMatch"}

CustomActions ==
    {Custom(tEn, uEn, tDis, uDis, rEnable, rDisable) :
        tEn \in GateTimes, uEn \in GateScopes,
        tDis \in GateTimes \cup {"closeWindow"}, uDis \in GateScopes,
        rEnable \in BOOLEAN, rDisable \in BOOLEAN}
    \cup {[Simple("custom", TRUE, TRUE) EXCEPT !.hasCustom = FALSE]}

\* a rule on *example.com* for e1 with this action
CustomRule(action) ==
    Rule("custom", TRUE, <<5>>, "and", <<UrlT(<<PatExampleCom>>)>>,
         <<>>, <<"e1">>, action)

\* the round of the rule: not yet processed
CustomCall(action, ts) ==
    [rule |-> CustomRule(action), sc |-> "s1", ctx |-> Ctx(ts.tab, ts.tabs),
     time |-> 0, pc |-> "scheduled", result |-> <<>>, tasks |-> <<>>,
     winners |-> <<>>, reloaded |-> FALSE]

InitCustom ==
    /\ enabled \in {{SelfId}, {SelfId, "e1"}}
    /\ rules = <<>>
    /\ groups = GroupsCfg
    /\ tab = NoUrl
    /\ tabs = {}
    /\ scene = "s1"
    /\ now = 0
    /\ indexer = rebuildIndex(<<>>)
    /\ rd = IdleRound
    /\ mx = <<>>
    /\ ao = {}
    /\ faults = NoFaults
    /\ rounds = <<>>
    /\ handlers = <<>>
    /\ db = NoEvents
    /\ StoresIdle
    /\ mt \in {<<CustomCall(action, ts)>> :
                  action \in CustomActions, ts \in MatchContexts}

\* the loop body of processRule for the rule: process(rule, ...)
CustomProcess ==
    /\ mt[1].pc = "scheduled"
    /\ mt' = <<[mt[1] EXCEPT
                   !.pc = "executing",
                   !.result = <<isMatch(mt[1].sc, mt[1].rule, mt[1].ctx,
                                        mt[1].time)>>,
                   !.tasks = process(mt[1].rule, mt[1].sc, groups, mt[1].ctx,
                                     mt[1].time)]>>
    /\ UNCHANGED <<enabled, rules, groups, tab, tabs, scene, now, indexer, rd>>
    /\ UNCHANGED notMt

\* execute() of the round's accumulator
CustomExecute ==
    /\ mt[1].pc = "executing"
    /\ LET winners == Resolve(mt[1].tasks)
           calls == Calls(mt[1].tasks, winners, DOMAIN winners, enabled)
       IN  /\ enabled' = Applied(calls, enabled)
           /\ mt' = <<[mt[1] EXCEPT
                          !.pc = "done",
                          !.winners = winners,
                          !.reloaded = \E e \in DOMAIN winners :
                                           mt[1].tasks[winners[e]].reload]>>
    /\ UNCHANGED <<rules, groups, tab, tabs, scene, now, indexer, rd>>
    /\ UNCHANGED notMt

\* the next round of the same rule, in another context
CustomNextRound ==
    /\ mt[1].pc = "done"
    /\ \E ts \in MatchContexts :
          /\ Ctx(ts.tab, ts.tabs) # mt[1].ctx
          /\ mt' = <<CustomCall(mt[1].rule.action, ts)>>
    /\ UNCHANGED <<enabled, rules, groups, tab, tabs, scene, now, indexer, rd>>
    /\ UNCHANGED notMt

NextCustom ==
    \/ CustomProcess
    \/ CustomExecute
    \/ CustomNextRound

SpecCustom == InitCustom /\ [][NextCustom]_vars

\* the gate table: whether a gate with these settings fires on a result
GateFires(time, scope, res) ==
    \/ time = "match" /\ scope = "currentMatch" /\ res.isCurrentMatch
    \/ time = "match" /\ scope = "anyMatch" /\ res.isAnyMatch
    \/ time = "notMatch" /\ scope = "currentNotMatch" /\ ~res.isCurrentMatch
    \/ time = "notMatch" /\ scope = "allNotMatch" /\ ~res.isAnyMatch

CustomProcessed == mt # <<>> /\ mt[1].pc \in {"executing", "done"}

TasksOfKind(kind) == SelectSeq(mt[1].tasks, LAMBDA t : t.kind = kind)

EnableFires ==
    /\ mt[1].rule.action.hasCustom
    /\ GateFires(mt[1].rule.action.custom.timeWhenEnable,
                 mt[1].rule.action.custom.urlMatchWhenEnable,
                 mt[1].result[1])

DisableFires ==
    /\ mt[1].rule.action.hasCustom
    /\ GateFires(mt[1].rule.action.custom.timeWhenDisable,
                 mt[1].rule.action.custom.urlMatchWhenDisable,
                 mt[1].result[1])

\* C34: in custom mode the enable gate issues one open task exactly when
\* its (time, scope) setting is (match, currentMatch) and isCurrentMatch
\* holds, (match, anyMatch) and isAnyMatch holds, (notMatch,
\* currentNotMatch) and isCurrentMatch is false, or (notMatch, allNotMatch)
\* and isAnyMatch is false; the disable gate issues a close task by the
\* same table over the Disable settings; the tasks of the notMatch branches
\* are marked isFallback and those of the match branches are not.
C34_GateTable ==
    CustomProcessed =>
        LET opens == TasksOfKind("open")
            closes == TasksOfKind("close")
            custom == mt[1].rule.action.custom
        IN  /\ Len(opens) = (IF EnableFires THEN 1 ELSE 0)
            /\ Len(closes) = (IF DisableFires THEN 1 ELSE 0)
            /\ \A i \in DOMAIN opens :
                   opens[i].isFallback = (custom.timeWhenEnable = "notMatch")
            /\ \A i \in DOMAIN closes :
                   closes[i].isFallback = (custom.timeWhenDisable = "notMatch")

\* the rule matches on a background tab only; its enable gate (match,
\* anyMatch) has issued an open and its disable gate (notMatch,
\* currentNotMatch) a fallback close
C34_Witness ==
    /\ CustomProcessed
    /\ mt[1].rule.action.hasCustom
    /\ mt[1].rule.action.custom.timeWhenEnable = "match"
    /\ mt[1].rule.action.custom.urlMatchWhenEnable = "anyMatch"
    /\ mt[1].rule.action.custom.timeWhenDisable = "notMatch"
    /\ mt[1].rule.action.custom.urlMatchWhenDisable = "currentNotMatch"
    /\ ~mt[1].result[1].isCurrentMatch
    /\ mt[1].result[1].isAnyMatch
    /\ Len(mt[1].tasks) = 2
    /\ mt[1].tasks[1].kind = "open" /\ ~mt[1].tasks[1].isFallback
    /\ mt[1].tasks[2].kind = "close" /\ mt[1].tasks[2].isFallback

CustomDone == mt # <<>> /\ mt[1].pc = "done"

\* C35: when the enable gate and the disable gate of a custom-mode rule
\* both fire in a round for the same targets, the action applied to the
\* targets is that of the match gate if exactly one of the two gates is a
\* notMatch (fallback) branch, and the disable otherwise.
C35_BothGatesFire ==
    (CustomDone /\ EnableFires /\ DisableFires) =>
        LET custom == mt[1].rule.action.custom
            enableFallback == custom.timeWhenEnable = "notMatch"
            disableFallback == custom.timeWhenDisable = "notMatch"
            expected == IF enableFallback # disableFallback
                        THEN (IF enableFallback THEN "close" ELSE "open")
                        ELSE "close"
        IN  \A e \in getTarget(groups, mt[1].rule) \ {SelfId} :
                AppliedKind(e) = expected

\* both gates have fired, the enable gate on a match and the disable gate
\* as a fallback: e1 is enabled
C35_Witness ==
    /\ CustomDone
    /\ EnableFires
    /\ DisableFires
    /\ mt[1].rule.action.custom.timeWhenEnable = "match"
    /\ mt[1].rule.action.custom.timeWhenDisable = "notMatch"
    /\ Len(mt[1].tasks) = 2
    /\ mt[1].tasks[mt[1].winners["e1"]].kind = "open"
    /\ "e1" \in enabled

\* both gates have fired on a match: the close, appended last, is applied
C35_WitnessBothMatch ==
    /\ CustomDone
    /\ EnableFires
    /\ DisableFires
    /\ mt[1].rule.action.custom.timeWhenEnable = "match"
    /\ mt[1].rule.action.custom.timeWhenDisable = "match"
    /\ mt[1].winners["e1"] = 2
    /\ "e1" \notin enabled

\* whether the rule's settings ask for a reload with a task of this kind:
\* the reload flag of the transition, and for a gate on (match, anyMatch)
\* a match of the current document
ReloadRequested(kind) ==
    LET action == mt[1].rule.action
        res == mt[1].result[1]
    IN  IF kind = "open"
        THEN /\ action.reloadAfterEnable
             /\ (/\ action.custom.timeWhenEnable = "match"
                 /\ action.custom.urlMatchWhenEnable = "anyMatch")
                => res.isCurrentMatch
        ELSE /\ action.reloadAfterDisable
             /\ (/\ action.custom.timeWhenDisable = "match"
                 /\ action.custom.urlMatchWhenDisable = "anyMatch")
                => res.isCurrentMatch

\* C38: after execute() the document is reloaded only if a winning task
\* requested the reload; a reload flag of a task that lost the conflict
\* resolution causes no reload, and a task of a custom-mode anyMatch gate
\* requests the reload only when the current document itself matched.
C38_ReloadOnlyForWinners ==
    (CustomDone /\ mt[1].reloaded) =>
        \E e \in DOMAIN mt[1].winners :
            ReloadRequested(mt[1].tasks[mt[1].winners[e]].kind)

\* the open of the enable gate asked for a reload and lost against the
\* close of the disable gate, which did not: no reload
C38_Witness ==
    /\ CustomDone
    /\ Len(mt[1].tasks) = 2
    /\ mt[1].tasks[1].reload
    /\ ~mt[1].tasks[2].reload
    /\ mt[1].winners["e1"] = 2
    /\ ~mt[1].reloaded

\* the anyMatch gate fired on a background tab with reloadAfterEnable set:
\* its task won and there is no reload
C38_WitnessAnyMatch ==
    /\ CustomDone
    /\ mt[1].rule.action.reloadAfterEnable
    /\ mt[1].rule.action.custom.timeWhenEnable = "match"
    /\ mt[1].rule.action.custom.urlMatchWhenEnable = "anyMatch"
    /\ ~mt[1].result[1].isCurrentMatch
    /\ Len(mt[1].tasks) = 1
    /\ mt[1].tasks[1].kind = "open"
    /\ ~mt[1].reloaded

\* the winning task asked for the reload: the document is reloaded
C38_WitnessReloaded ==
    /\ CustomDone
    /\ Len(mt[1].tasks) = 2
    /\ mt[1].tasks[mt[1].winners["e1"]].reload
    /\ mt[1].reloaded

-----------------------------------------------------------------------------
(* Rules whose target resolves to nothing, next to rules that act          *)

\* the groups of the configuration store, one of them without members
TargetGroupsCfg ==
    GroupsCfg \o << [id |-> "g3", extensions |-> {}, alwaysOn |-> FALSE,
                     isMutex |-> FALSE] >>

\* no explicit id and no group
NoTargetCloseOnly ==
    Rule("noTargetCloseOnly", TRUE, <<5>>, "and", <<UrlT(<<PatOther>>)>>,
         <<>>, <<>>, Simple("closeOnlyWhenMatched", TRUE, TRUE))

\* a group that the configuration store does not have
UnknownGroupOpenOnly ==
    Rule("unknownGroupOpenOnly", TRUE, <<>>, "and", <<SceneT(<<"s2">>)>>,
         <<"g9">>, <<>>, Simple("openOnlyWhenMatched", FALSE, FALSE))

\* a group without members
EmptyGroupCustom ==
    Rule("emptyGroupCustom", TRUE, <<10>>, "or", <<UrlT(<<PatExampleCom>>)>>,
         <<"g3">>, <<>>,
         Custom("match", "anyMatch", "notMatch", "currentNotMatch", TRUE,
                FALSE))

\* an unknown and an empty group
NoMemberClose ==
    Rule("noMemberClose", TRUE, <<>>, "and", <<>>,
         <<"g9", "g3">>, <<>>, Simple("closeWhenMatched", FALSE, FALSE))

NoTargetRules ==
    {NoTargetCloseOnly, UnknownGroupOpenOnly, EmptyGroupCustom, NoMemberClose}

TargetRuleLists ==
    LET acting == {OpenUrl, OpenOnly5, CloseOnly10, Custom5, SelfOnly}
        pool == NoTargetRules \cup acting
    IN  {<<a>> : a \in NoTargetRules}
        \cup {l \in {<<a, b>> : a \in NoTargetRules, b \in pool} :
                  l[1] # l[2]}
        \cup {<<b, a>> : a \in NoTargetRules, b \in acting}
        \cup {<<b, a, c>> : a \in NoTargetRules, b \in {OpenUrl, CloseOnly10},
                            c \in {OpenOnly5, Custom5}}

\* a round over a rule list: not yet processed
TargetCall(rs, sc, ts, time) ==
    [rules |-> rs, sc |-> sc, ctx |-> Ctx(ts.tab, ts.tabs), time |-> time,
     pc |-> "scheduled", tasks |-> <<>>]

InitTargets ==
    /\ enabled = {SelfId}
    /\ rules = <<>>
    /\ groups = TargetGroupsCfg
    /\ tab = NoUrl
    /\ tabs = {}
    /\ scene = "s1"
    /\ now = 0
    /\ indexer = rebuildIndex(<<>>)
    /\ rd = IdleRound
    /\ mx = <<>>
    /\ ao = {}
    /\ faults = NoFaults
    /\ rounds = <<>>
    /\ handlers = <<>>
    /\ db = NoEvents
    /\ StoresIdle
    /\ mt \in {<<TargetCall(rs, sc, ts, 0)>> :
                  rs \in TargetRuleLists, sc \in {"s1", "s2"},
                  ts \in MatchContexts}

\* processRule below the index threshold: the list sorted, every rule
\* processed in turn
TargetRound ==
    /\ mt[1].pc = "scheduled"
    /\ mt' = <<[mt[1] EXCEPT
                   !.pc = "executing",
                   !.tasks = collect(sortedRules(mt[1].rules), mt[1].sc,
                                     groups, mt[1].ctx, mt[1].time, {})]>>
    /\ UNCHANGED <<enabled, rules, groups, tab, tabs, scene, now, indexer, rd>>
    /\ UNCHANGED notMt

\* the next round over the same list, in another context
TargetNextRound ==
    /\ mt[1].pc = "executing"
    /\ \E sc \in {"s1", "s2"}, ts \in MatchContexts :
          /\ <<sc, Ctx(ts.tab, ts.tabs)>> # <<mt[1].sc, mt[1].ctx>>
          /\ mt' = <<TargetCall(mt[1].rules, sc, ts, mt[1].time)>>
    /\ UNCHANGED <<enabled, rules, groups, tab, tabs, scene, now, indexer, rd>>
    /\ UNCHANGED notMt

NextTargets ==
    \/ TargetRound
    \/ TargetNextRound

SpecTargets == InitTargets /\ [][NextTargets]_vars

TargetProcessed == mt # <<>> /\ mt[1].pc = "executing"

ResolvesToNothing(rule) == getTarget(groups, rule) = {}

\* C36: a rule whose target resolves to no extension id produces no task
\* in the round, whatever its action, and the tasks of the round are those
\* of the other rules, as they would be without it.
C36_NoTargetNoTask ==
    TargetProcessed =>
        LET rs == mt[1].rules
            others == SelectSeq(rs, LAMBDA r : ~ResolvesToNothing(r))
        IN  /\ \A i \in DOMAIN rs :
                   ResolvesToNothing(rs[i]) =>
                       \A k \in DOMAIN mt[1].tasks :
                           mt[1].tasks[k].rule # rs[i].id
            /\ mt[1].tasks = collect(sortedRules(others), mt[1].sc, groups,
                                     mt[1].ctx, mt[1].time, {})

\* a closeOnlyWhenMatched rule without target that does not match (its
\* fallback branch would open) stands before a rule that has appended a
\* task
C36_Witness ==
    /\ TargetProcessed
    /\ Len(mt[1].rules) = 2
    /\ mt[1].rules[1] = NoTargetCloseOnly
    /\ ~isMatch(mt[1].sc, mt[1].rules[1], mt[1].ctx,
                mt[1].time).isCurrentMatch
    /\ Len(mt[1].tasks) = 1
    /\ mt[1].tasks[1].rule = mt[1].rules[2].id
    /\ mt[1].tasks[1].targets # {}

\* C37: every task appended to the accumulator during a rule round has a
\* non-empty target set; a rule whose only resolved target is the
\* controller itself appends no task.
C37_TasksHaveTargets ==
    TargetProcessed =>
        /\ \A k \in DOMAIN mt[1].tasks : mt[1].tasks[k].targets # {}
        /\ \A i \in DOMAIN mt[1].rules :
               getTarget(groups, mt[1].rules[i]) = {SelfId} =>
                   \A k \in DOMAIN mt[1].tasks :
                       mt[1].tasks[k].rule # mt[1].rules[i].id

-----------------------------------------------------------------------------
(* Rounds beside edits of the rule set                                     *)
(*                                                                         *)
(* The configuration store hands its rule list to every round.  The index  *)
(* is rebuilt after an edit; a round that starts between the edit and the  *)
(* rebuild meets the index of the list before the edit.                    *)

\* lists long enough for processRule to narrow through the index
EditedLists ==
    {core \o Filler :
        core \in {<<OpenUrl>>, <<OpenUrl, SceneOpen5>>, <<SceneOpen5>>,
                  <<CloseOnly10, OpenUrl>>, <<PeriodClose, SceneOpen5>>}}

IndexStale == indexer # rebuildIndex(RuleConfigs(rules))

InitEdits ==
    /\ enabled \in {{SelfId}, {SelfId, "e1", "e2"}}
    /\ rules \in {[i \in DOMAIN l |-> RuleRef(l[i])] : l \in EditedLists}
    /\ groups = GroupsCfg
    /\ tab = UrlExample
    /\ tabs = {UrlExample}
    /\ scene = "s1"
    /\ now = 0
    /\ indexer = rebuildIndex(RuleConfigs(rules))
    /\ rd = IdleRound
    /\ AuxIdle

\* the user edits the rule set between two rounds
EditRules ==
    /\ ~InFlight
    /\ ~IndexStale
    /\ \E l \in EditedLists :
          /\ [i \in DOMAIN l |-> RuleRef(l[i])] # rules
          /\ rules' = [i \in DOMAIN l |-> RuleRef(l[i])]
    /\ UNCHANGED <<enabled, groups, tab, tabs, scene, now, indexer, rd>>
    /\ UNCHANGED aux

\* the rebuild that follows the edit
RebuildAfterEdit ==
    /\ ~InFlight
    /\ IndexStale
    /\ indexer' = rebuildIndexOn(indexer, RuleConfigs(rules))
    /\ UNCHANGED <<enabled, rules, groups, tab, tabs, scene, now, rd>>
    /\ UNCHANGED aux

NextEdits ==
    \/ EditRules
    \/ RebuildAfterEdit
    \/ OnTabChanged
    \/ OnSceneChanged
    \/ processRule
    \/ RoundExecute

SpecEdits == InitEdits /\ [][NextEdits]_vars

\* C32: every rule a round evaluates is an element of the rule list passed
\* to the round, also when the round narrows through an index that was
\* last rebuilt before the rule set was edited.
C32_EvaluatedRulesAreInList ==
    (rd.kind = "rule" /\ rd.pc = "executing") =>
        \A i \in DOMAIN rd.order : rd.order[i] \in SeqToSet(rules)

-----------------------------------------------------------------------------
(* The keyboard scene switch: the scene-changed round of the rule handler  *)
(* and enableAlwaysOnExtensions are started one after the other and run    *)
(* side by side                                                            *)

SwitchRuleLists ==
    {<<CloseOnly10>>, <<CloseOnly10, SceneOpen5>>, <<SceneOpen5, CloseOnly10>>,
     <<CloseUrl, PeriodClose>>}

\* e1, a member of the always-on group g1, is disabled
InitSwitch ==
    /\ enabled \in {{SelfId}, {SelfId, "e2"}}
    /\ rules \in {[i \in DOMAIN l |-> RuleRef(l[i])] : l \in SwitchRuleLists}
    /\ groups = GroupsCfg
    /\ \E ts \in TabStates : tab = ts.tab /\ tabs = ts.tabs
    /\ scene = "s1"
    /\ now = 0
    /\ indexer = rebuildIndex(RuleConfigs(rules))
    /\ rd = IdleRound
    /\ AuxIdle

\* the command listener: the next scene is made active and handed to
\* EM.Rule.handler.onCurrentSceneChanged, whose round starts on it
KeyboardSwitch ==
    /\ rounds = <<>>
    /\ \E s \in Scenes \ {scene} :
          LET ctx == Ctx(tab, tabs)
              sorted == sortedRules(rulesToProcess(RuleConfigs(rules), indexer,
                                                   s, ctx))
          IN  /\ scene' = s
              /\ handlers' = <<NewHandler>>
              /\ rounds' = <<[pc |-> "collecting", sc |-> s, ctx |-> ctx,
                              todo |-> [i \in DOMAIN sorted |-> sorted[i].id],
                              handler |-> 1]>>
    /\ UNCHANGED <<enabled, rules, groups, tab, tabs, now, indexer, rd>>
    /\ UNCHANGED notRounds

\* the enableAlwaysOnExtensions() the listener calls next, not awaited
SwitchAlwaysOn ==
    /\ rounds # <<>>
    /\ rd.kind = "none"
    /\ enableAlwaysOnExtensions

NextSwitch ==
    \/ KeyboardSwitch
    \/ SwitchAlwaysOn
    \/ RoundExecute
    \/ RunRound

SpecSwitch == InitSwitch /\ [][NextSwitch]_vars

\* the round and the enforcement pass of the switch are both through
SwitchOver ==
    /\ rounds # <<>>
    /\ rounds[1].pc = "done"
    /\ rd.kind = "alwaysOn"
    /\ rd.pc = "done"

\* the round's winning task for e is a close
SwitchCloses(e) ==
    LET tasks == [i \in DOMAIN handlers[1].taken |-> handlers[1].taken[i].task]
    IN  /\ e \in Touched(tasks)
        /\ tasks[Winner(tasks, e)].kind = "close"

\* C33: after a keyboard scene switch an always-on member that was
\* disabled and that a winning close task of the round in the new scene
\* targets ends in the same state whatever the interleaving of the round
\* and the enforcement pass: the state the round's close asks for.
C33_SameStateInEveryInterleaving ==
    (SwitchOver /\ SwitchCloses("e1")) => "e1" \notin enabled

\* the other outcome: the enforcement pass enabled e1 before the round's
\* execute(), which disabled it again
C33_RoundAfterEnforcement ==
    /\ SwitchOver
    /\ SwitchCloses("e1")
    /\ [id |-> "e1", kind |-> "close"] \in SeqToSet(handlers[1].calls)
    /\ "e1" \notin enabled

\* the enforcement pass enabled e1 after the round had found it disabled
C33_EnforcementAfterRound ==
    /\ SwitchOver
    /\ SwitchCloses("e1")
    /\ handlers[1].calls = <<>>
    /\ "e1" \in enabled

-----------------------------------------------------------------------------
(* The chain of rounds and mutex runs                                      *)
(*                                                                         *)
(* Nothing happens from outside: no navigation, no scene switch, no edit,  *)
(* no toggle.  A round enables and disables extensions; the browser tells  *)
(* the listener of MutexGroupHandler of every extension that was enabled   *)
(* and the rule handler of every change, which starts the next round.      *)

ChainRuleLists ==
    {<<SceneOpen5>>, <<OpenUrl>>, <<SceneOpen5, CloseUrl>>, <<PeriodClose>>,
     <<OpenUrl, OpenOnly5>>}

InitChain ==
    /\ enabled \in {S \cup {SelfId} : S \in SUBSET (Exts \ {SelfId})}
    /\ rules \in {[i \in DOMAIN l |-> RuleRef(l[i])] : l \in ChainRuleLists}
    /\ groups = GroupsCfg
    /\ tab = UrlExample
    /\ tabs = {UrlExample}
    /\ scene = "s1"
    /\ now = 0
    /\ indexer = rebuildIndex(RuleConfigs(rules))
    /\ rd = IdleRound
    /\ AuxIdle

\* the runs of the listener that are not through
RunningRuns == SelectSeq(mx, LAMBDA r : r.pc # "done")

\* execute() of the round; chrome.management.onEnabled fires for every
\* extension it enabled and the listener starts a run for each
ChainExecute ==
    /\ execute
    /\ LET winners == Resolve(rd.tasks)
           calls == accepted(issued(Calls(rd.tasks, winners, DOMAIN winners,
                                          enabled),
                                    faults.failing),
                             faults.failing)
           opened == SelectSeq(calls, LAMBDA c : c.kind = "open")
       IN  /\ Len(RunningRuns) + Len(opened) <= MaxEnables
           /\ mx' = RunningRuns \o [i \in DOMAIN opened |-> NewRun(opened[i].id)]
    /\ UNCHANGED notMx

NextChain ==
    \/ OnExtensionEvent
    \/ processRule
    \/ ChainExecute
    \/ handleExtensionEnabled

\* the event loop runs every callback that is due
ChainFairness ==
    /\ WF_vars(OnExtensionEvent)
    /\ WF_vars(processRule)
    /\ WF_vars(ChainExecute)
    /\ WF_vars(handleExtensionEnabled)

SpecChain == InitChain /\ [][NextChain]_vars /\ ChainFairness

\* a state-change call is about to be issued: by the execute() of the
\* round, or by a run of the listener
CallDue ==
    \/ /\ rd.pc = "executing"
       /\ LET winners == Resolve(rd.tasks)
          IN  Calls(rd.tasks, winners, DOMAIN winners, enabled) # <<>>
    \/ \E i \in DOMAIN mx : mx[i].pc = "set"

\* C31: with no further change from outside, the chain of rule rounds,
\* notifications, mutex disables and re-triggered rounds eventually stops
\* issuing state-change calls, also when the winning tasks of a round
\* enable two members of one mutex group.
C31_ChainStops == <>[]~CallDue

=============================================================================
